---- MODULE Spec2Model ----
(***************************************************************************)
(* Model of the bit-banged LCD driver, the keypad debouncer and the Snake  *)
(* game of src/src/main.cpp and src/src/keypad.cpp.                        *)
(*                                                                         *)
(* Several specifications share the module:                                *)
(*   Spec     the game loop: loop(), handleInput(), stepGame(),            *)
(*            snakeReset(), placeFood(), renderGame()                      *)
(*   SpecKey  readKeyDebounced() against a clock and a raw key line        *)
(*   SpecBus  lcdWriteCommand / lcdWriteData / lcdWriteDataBuffer, one pin *)
(*            write per step                                               *)
(* and the specifications of the display driver listed with its section.   *)
(* Each specification leaves the variables of the others unchanged.        *)
(***************************************************************************)
EXTENDS Integers, Sequences, FiniteSets, TLC

VARIABLES
  \* ---- game (main.cpp 812-834) ----
  grid,       \* geometry in force: [cols, rows]; fixed after Init
  snake,      \* live cells snake[0..snakeLen-1] as a sequence (code index i is i+1 here)
  snakeLen,
  dirX, dirY,
  nextDirX, nextDirY,
  food,
  gameOver,
  paused,
  okHeld,
  score,
  tickMs,
  lastTick,   \* millis() as read before the last call of stepGame (main.cpp 833)
  started,    \* loop()'s static flag
  pc,         \* position in loop(): "input" before handleInput, "tick" before stepGame;
              \* under SpecFrame [fn, at]: the function drawing the frame and the
              \* number of library calls it has made
  \* ---- observation of the game (history variables) ----
  frames,     \* frames flushed to the display by the last handler, in order
  okLast,     \* the last poll returned KEY_OK (FALSE before any poll)
  \* ---- keypad (keypad.cpp 4-5) ----
  lastStableKey,
  lastDebounceTime,
  now,        \* millis()
  rawKey,     \* what readKeyRaw() would return now
  rawSince,   \* history: time at which rawKey took its present value
  polledLate, \* history: the present hold has been polled KEYPAD_DEBOUNCE_MS or more after it began
  changes,    \* history: number of times lastStableKey changed during the present hold
  stableAtHold, \* history: lastStableKey when the present hold began
  seenAt,     \* history: time of the last poll that read the present stable key on
              \* the raw line (-1 when no poll has)
  \* ---- bus (main.cpp 67-106) ----
  cs, dc, sck, mosi,   \* pin levels
  busOp,      \* transfer in progress: [kind, bytes] or NoOp
  bpc,        \* position inside the transfer
  byteIdx,    \* index of the byte being clocked out (1-based)
  bitIdx,     \* lcdWriteByte's loop variable i (7 down to 0, -1 when the loop is over)
  sampled,    \* history: data line values at the rising clock edges of this burst
  dcAtEdge,   \* history: D/C line values at the rising clock edges of this burst
  falls,      \* history: number of falling clock edges of this burst
  \* ---- display driver (main.cpp 30, 171-618) ----
  lcdBuffer,  \* the framebuffer, as the map of its non-zero cells
  oob,        \* byte offsets from lcdBuffer, past its end, that have been stored to
  call,       \* the library call made last: [fn, args] or NoCall
  loc,        \* locals of the function being executed
  fpc,        \* position inside the function being executed
  ret,        \* value returned by the last lcdGetPixel
  rst,        \* level of the reset pin
  sent,       \* history: transfers put on the bus, in order, as [kind, bytes]
  elapsed     \* history: milliseconds since the last byte went out

gameVars == <<grid, snake, snakeLen, dirX, dirY, nextDirX, nextDirY, food,
              gameOver, paused, okHeld, score, tickMs, lastTick, started, pc,
              frames, okLast>>
keyVars  == <<lastStableKey, lastDebounceTime, now, rawKey, rawSince, polledLate,
              changes, stableAtHold, seenAt>>
busVars  == <<cs, dc, sck, mosi, busOp, bpc, byteIdx, bitIdx, sampled, dcAtEdge, falls>>
drvVars  == <<lcdBuffer, oob, call, loc, fpc, ret, rst, sent, elapsed>>
vars     == <<gameVars, keyVars, busVars, drvVars>>

(***************************************************************************)
(* Key (keypad.h)                                                          *)
(***************************************************************************)
KEY_NONE  == 0
KEY_UP    == 1
KEY_DOWN  == 2
KEY_LEFT  == 3
KEY_RIGHT == 4
KEY_OK    == 5
Key == {KEY_NONE, KEY_UP, KEY_DOWN, KEY_LEFT, KEY_RIGHT, KEY_OK}

(***************************************************************************)
(* Geometry.  The program's grid is 33 x 10 (main.cpp 818-819); the model  *)
(* runs the same code on two smaller grids, a two-row torus and a one-row  *)
(* ring long enough for the tick interval to reach its floor.              *)
(***************************************************************************)
TorusCols == 3
RingCols  == 24
Grids == { [cols |-> TorusCols, rows |-> 2], [cols |-> RingCols, rows |-> 1] }

GRID_COLS == grid.cols
GRID_ROWS == grid.rows
SNAKE_MAX == GRID_COLS * GRID_ROWS

TICK_START == 180
TICK_FLOOR == 80
TICK_STEP  == 5

Point(x, y) == [x |-> x, y |-> y]
Cells == { Point(x, y) : x \in 0..(GRID_COLS - 1), y \in 0..(GRID_ROWS - 1) }

U8(n) == n % 256

(***************************************************************************)
(* Game helpers                                                            *)
(***************************************************************************)
\* variant: the head cell only
snakeOccupies_Head(s, len, x, y) == len >= 1 /\ s[1].x = x /\ s[1].y = y

\* snakeOccupies (836-841): linear search of snake[0..snakeLen-1]
snakeOccupies(s, len, x, y) == \E i \in 1..len : s[i].x = x /\ s[i].y = y

FreeCells(s, len) == { c \in Cells : ~snakeOccupies(s, len, c.x, c.y) }

\* the row-major scan of placeFood (849-853): y outer, x inner, first free cell
ScanFirst(s, len) ==
  CHOOSE c \in FreeCells(s, len) :
    \A d \in FreeCells(s, len) : c.y < d.y \/ (c.y = d.y /\ c.x <= d.x)

\* placeFood (843-854): the cells food can hold when it returns.  A random draw
\* that misses the snake is taken at once (any free cell); when all 100 draws hit
\* the snake the scan takes the first free cell; when no cell is free neither loop
\* assigns and food keeps its value f.
placeFood(s, len, f) ==
  IF FreeCells(s, len) = {} THEN {f}
  ELSE FreeCells(s, len) \cup {ScanFirst(s, len)}

\* snakeReset (858-863): three cells on the middle row, head to the right
ResetSnake ==
  LET cx == GRID_COLS \div 2
      cy == GRID_ROWS \div 2
  IN  << Point(U8(cx + 1), cy), Point(cx, cy), Point(U8(cx - 1), cy) >>

\* variant: the coordinate held at the edge
WrapAxis_Clamp(n, size) ==
  IF n < 0 THEN 0 ELSE IF n >= size THEN size - 1 ELSE n

\* stepGame (946-953): candidate head, each axis wrapped by the two tests in order
WrapAxis(n, size) ==
  LET a == IF n < 0 THEN size - 1 ELSE n
  IN  IF a >= size THEN 0 ELSE a

NewHead(head, dx, dy) ==
  Point(WrapAxis(head.x + dx, GRID_COLS), WrapAxis(head.y + dy, GRID_ROWS))

\* variants of the collision loop: one stops before the tail cell, one starts
\* after the head cell
HitsBody_NoTail(s, len, nh) == \E i \in 1..(len - 1) : s[i].x = nh.x /\ s[i].y = nh.y
HitsBody_NoHead(s, len, nh) == \E i \in 2..len : s[i].x = nh.x /\ s[i].y = nh.y

\* stepGame (956-958): the collision loop over snake[0..snakeLen-1]
HitsBody(s, len, nh) == \E i \in 1..len : s[i].x = nh.x /\ s[i].y = nh.y

\* stepGame (961-962): shift the body one index toward the tail, store the head
ShiftBody(s, len, nh) ==
  [i \in 1..len |-> IF i = 1 THEN Point(U8(nh.x), U8(nh.y)) ELSE s[i - 1]]

\* variant: the head cell appended instead of the tail cell
Grow_Head(s, len) == IF len < SNAKE_MAX THEN Append(s, s[1]) ELSE s

\* stepGame (966): growth, guarded by the capacity test
Grow(s, len) == IF len < SNAKE_MAX THEN Append(s, s[len]) ELSE s

\* variant: the length left as it is
GrowLen_Never(len) == len

GrowLen(len) == IF len < SNAKE_MAX THEN len + 1 ELSE len

\* variant: the decrement without its floor test
Faster_NoFloor(t) == t - TICK_STEP

\* stepGame (968): if (tickMs > 80) tickMs -= 5
Faster(t) == IF t > TICK_FLOOR THEN t - TICK_STEP ELSE t

\* variant: stepGame that only stops for a finished game
StepBlocked_OverOnly(over, psd) == over

\* stepGame (940): if (gameOver || paused) return
StepBlocked(over, psd) == over \/ psd

\* variant: the OK key taken by level instead of by edge
OkEdge_Level(k, held) == k = KEY_OK

\* handleInput (921, 927): an OK press that was not seen on the poll before
OkEdge(k, held) == k = KEY_OK /\ ~held

\* variant: the reversal tests made against the pending direction
AcceptDir_Pending(k, dx, dy, ndx, ndy) ==
  IF      k = KEY_UP    /\ ndy # 1  THEN <<0, -1>>
  ELSE IF k = KEY_DOWN  /\ ndy # -1 THEN <<0, 1>>
  ELSE IF k = KEY_LEFT  /\ ndx # 1  THEN <<-1, 0>>
  ELSE IF k = KEY_RIGHT /\ ndx # -1 THEN <<1, 0>>
  ELSE <<ndx, ndy>>

\* handleInput (933-936): the pending direction after key k, the active one being (dx, dy)
AcceptDir(k, dx, dy, ndx, ndy) ==
  IF      k = KEY_UP    /\ dy # 1  THEN <<0, -1>>
  ELSE IF k = KEY_DOWN  /\ dy # -1 THEN <<0, 1>>
  ELSE IF k = KEY_LEFT  /\ dx # 1  THEN <<-1, 0>>
  ELSE IF k = KEY_RIGHT /\ dx # -1 THEN <<1, 0>>
  ELSE <<ndx, ndy>>

\* renderGame (890-915): what the frame shows; the banner test is gameOver first
RenderGame(s, len, f, sc, over, psd) ==
  [ kind   |-> "game",
    score  |-> sc,
    food   |-> f,
    cells  |-> { s[i] : i \in 1..len },
    banner |-> IF over THEN "GAME OVER" ELSE IF psd THEN "PAUSE" ELSE "" ]

\* snakeReset (873-878): the HUD-only frame it flushes
HudFrame(sc) ==
  [ kind |-> "hud", score |-> sc, food |-> Point(0, 0), cells |-> {}, banner |-> "" ]

(***************************************************************************)
(* Game: initial state and handlers                                        *)
(***************************************************************************)
GameInit ==
  /\ grid \in Grids
  /\ snake = <<>>
  /\ snakeLen = 0
  /\ dirX = 1 /\ dirY = 0
  /\ nextDirX = 1 /\ nextDirY = 0
  /\ food = Point(0, 0)
  /\ gameOver = FALSE
  /\ paused = FALSE
  /\ okHeld = FALSE
  /\ score = 0
  /\ tickMs = TICK_START
  /\ lastTick = 0
  /\ started = FALSE
  /\ pc = "input"
  /\ frames = <<>>
  /\ okLast = FALSE

\* snakeReset() followed by renderGame(), as both callers do (921, 977);
\* held is the value okHeld has when the caller is done
ResetAndRender(held) ==
  \E f \in placeFood(ResetSnake, 3, food) :
    /\ snake' = ResetSnake
    /\ snakeLen' = 3
    /\ dirX' = 1 /\ dirY' = 0
    /\ nextDirX' = 1 /\ nextDirY' = 0
    /\ score' = 0
    /\ gameOver' = FALSE
    /\ paused' = FALSE
    /\ okHeld' = held
    /\ tickMs' = TICK_START
    /\ food' = f
    /\ frames' = << HudFrame(0), RenderGame(ResetSnake, 3, f, 0, FALSE, FALSE) >>

\* loop() (976-977): the first iteration resets the game once
LoopStart ==
  /\ ~started
  /\ ResetAndRender(FALSE)
  /\ started' = TRUE
  /\ lastTick' = now
  /\ UNCHANGED <<grid, pc, okLast>>
  /\ UNCHANGED <<keyVars, busVars, drvVars>>

\* handleInput() (917-937) on the debounced key k
handleInput(k) ==
  IF gameOver
    THEN IF OkEdge(k, okHeld)
           THEN ResetAndRender(k = KEY_OK)
           ELSE /\ okHeld' = (k = KEY_OK)
                /\ frames' = <<>>
                /\ UNCHANGED <<snake, snakeLen, dirX, dirY, nextDirX, nextDirY,
                               food, gameOver, paused, score, tickMs>>
    ELSE LET p == IF OkEdge(k, okHeld) THEN ~paused ELSE paused
             d == AcceptDir(k, dirX, dirY, nextDirX, nextDirY)
         IN  /\ paused' = p
             /\ okHeld' = (k = KEY_OK)
             /\ nextDirX' = IF p THEN nextDirX ELSE d[1]
             /\ nextDirY' = IF p THEN nextDirY ELSE d[2]
             /\ frames' = <<>>
             /\ UNCHANGED <<snake, snakeLen, dirX, dirY, food, gameOver,
                            score, tickMs>>

\* loop() (979-982): handleInput() on the debounced key k, then the tick test;
\* due is its outcome (now - lastTick >= tickMs), and when it is true lastTick
\* takes the reading of millis() and stepGame follows
LoopTurn(k, due) ==
  /\ started /\ pc = "input"
  /\ handleInput(k)
  /\ okLast' = (k = KEY_OK)
  /\ pc' = IF due THEN "tick" ELSE "input"
  /\ lastTick' = IF due THEN now' ELSE lastTick
  /\ UNCHANGED <<grid, started>>
  /\ UNCHANGED <<busVars, drvVars>>

\* one turn of loop() up to the tick test, the clock left out: both outcomes
\* of the test are taken
HandleInput(k, due) ==
  /\ UNCHANGED keyVars
  /\ LoopTurn(k, due)

\* stepGame() (939-973), called by loop() when the tick interval has elapsed
StepGame ==
  /\ started /\ pc = "tick"
  /\ pc' = "input"
  /\ UNCHANGED <<grid, started, okLast, okHeld, paused, nextDirX, nextDirY, lastTick>>
  /\ UNCHANGED <<keyVars, busVars, drvVars>>
  /\ IF StepBlocked(gameOver, paused)
       THEN /\ frames' = <<>>
            /\ UNCHANGED <<snake, snakeLen, dirX, dirY, food, gameOver, score, tickMs>>
       ELSE LET nh == NewHead(snake[1], nextDirX, nextDirY)
            IN  /\ dirX' = nextDirX
                /\ dirY' = nextDirY
                /\ IF HitsBody(snake, snakeLen, nh)
                     THEN /\ gameOver' = TRUE
                          /\ frames' = << RenderGame(snake, snakeLen, food, score, TRUE, paused) >>
                          /\ UNCHANGED <<snake, snakeLen, food, score, tickMs>>
                     ELSE LET moved == ShiftBody(snake, snakeLen, nh)
                          IN  IF moved[1].x = food.x /\ moved[1].y = food.y
                                THEN LET grown == Grow(moved, snakeLen)
                                         glen  == GrowLen(snakeLen)
                                     IN  \E f \in placeFood(grown, glen, food) :
                                           /\ snake' = grown
                                           /\ snakeLen' = glen
                                           /\ score' = score + 1
                                           /\ tickMs' = Faster(tickMs)
                                           /\ food' = f
                                           /\ gameOver' = gameOver
                                           /\ frames' = << RenderGame(grown, glen, f, score + 1,
                                                                      gameOver, paused) >>
                                ELSE /\ snake' = moved
                                     /\ frames' = << RenderGame(moved, snakeLen, food, score,
                                                                gameOver, paused) >>
                                     /\ UNCHANGED <<snakeLen, food, gameOver, score, tickMs>>

\* variant: the interval compared with the shortest tick
TickDue_Floor(t, last, tick) == t - last >= TICK_FLOOR
\* loop() (982): the tick test at reading t of millis().  The subtraction is
\* unsigned in the code; last is an earlier reading of the same clock, so the
\* difference is the time that has passed.
TickDue(t, last, tick) == t - last >= tick

MaxClock   == 400                    \* the clock stops here
LoopDelays == {10, 90}               \* milliseconds from one turn's reading of millis() to the next

\* the first turn of loop(): the reset at 977 has just been made
FirstTurn == Len(frames) = 2 /\ ~okLast

\* one turn of loop() (979-984) against the clock: d is the time from the
\* reading of millis() before this one (at 981 of the turn before, which ended
\* in delay(10), or at 977 in the first turn) to the reading at 981
LoopIteration(k, d) ==
  /\ now + d <= MaxClock
  /\ now' = now + d
  /\ UNCHANGED <<lastStableKey, lastDebounceTime, rawKey, rawSince, polledLate,
                 changes, stableAtHold, seenAt>>
  /\ LoopTurn(k, TickDue(now', lastTick, tickMs'))

NextLoop ==
  \/ LoopStart
  \/ \E k \in Key, d \in (IF FirstTurn THEN {0} ELSE {}) \cup LoopDelays : LoopIteration(k, d)
  \/ StepGame

Next ==
  \/ LoopStart
  \/ \E k \in Key, due \in BOOLEAN : HandleInput(k, due)
  \/ StepGame

(***************************************************************************)
(* Keypad: readKeyDebounced (keypad.cpp 32-44) against a clock and a raw   *)
(* key line that changes between polls                                     *)
(***************************************************************************)
KEYPAD_DEBOUNCE_MS == 30

MaxTime  == 65                        \* the clock stops here
Steps    == {1, 10}                   \* milliseconds the clock advances by
RawKeys  == {KEY_NONE, KEY_UP, KEY_DOWN}   \* values the raw key line takes

\* variant: the timestamp left alone while the raw key equals the stable key
readKeyDebounced_NoRefresh(k, t, stable, last) ==
  IF k # stable
    THEN IF t - last >= KEYPAD_DEBOUNCE_MS
           THEN [stable |-> k, last |-> t]
           ELSE [stable |-> stable, last |-> last]
    ELSE [stable |-> stable, last |-> last]

\* variant: the window test made strict
readKeyDebounced_Strict(k, t, stable, last) ==
  IF k # stable
    THEN IF t - last > KEYPAD_DEBOUNCE_MS
           THEN [stable |-> k, last |-> t]
           ELSE [stable |-> stable, last |-> last]
    ELSE [stable |-> stable, last |-> t]

\* readKeyDebounced (35-43) with raw key k at time t: the new lastStableKey and
\* lastDebounceTime.  The subtraction is unsigned in the code; last is always an
\* earlier reading of the clock and the clock does not wrap before MaxTime, so
\* the difference is the plain one.
readKeyDebounced(k, t, stable, last) ==
  IF k # stable
    THEN IF t - last >= KEYPAD_DEBOUNCE_MS
           THEN [stable |-> k, last |-> t]
           ELSE [stable |-> stable, last |-> last]
    ELSE [stable |-> stable, last |-> t]

KeyInit ==
  /\ lastStableKey = KEY_NONE
  /\ lastDebounceTime = 0
  /\ now = 0
  /\ rawKey = KEY_NONE
  /\ rawSince = 0
  /\ polledLate = FALSE
  /\ changes = 0
  /\ stableAtHold = KEY_NONE
  /\ seenAt = -1

\* millis() moves on by d
Advance(d) ==
  /\ now + d <= MaxTime
  /\ now' = now + d
  /\ UNCHANGED <<lastStableKey, lastDebounceTime, rawKey, rawSince, polledLate,
                 changes, stableAtHold, seenAt>>
  /\ UNCHANGED <<gameVars, busVars, drvVars>>

\* the key line takes another value: a new hold begins
RawChange(k) ==
  /\ k # rawKey
  /\ rawKey' = k
  /\ rawSince' = now
  /\ polledLate' = FALSE
  /\ changes' = 0
  /\ stableAtHold' = lastStableKey
  /\ UNCHANGED <<lastStableKey, lastDebounceTime, now, seenAt>>
  /\ UNCHANGED <<gameVars, busVars, drvVars>>

\* one call of readKeyDebounced()
Poll ==
  LET r == readKeyDebounced(rawKey, now, lastStableKey, lastDebounceTime)
  IN  /\ lastStableKey' = r.stable
      /\ lastDebounceTime' = r.last
      /\ polledLate' = (polledLate \/ now - rawSince >= KEYPAD_DEBOUNCE_MS)
      /\ changes' = IF r.stable # lastStableKey THEN changes + 1 ELSE changes
      /\ seenAt' = IF rawKey = r.stable THEN now ELSE seenAt
      /\ UNCHANGED <<now, rawKey, rawSince, stableAtHold>>
      /\ UNCHANGED <<gameVars, busVars, drvVars>>

NextKey ==
  \/ \E d \in Steps : Advance(d)
  \/ \E k \in RawKeys : RawChange(k)
  \/ Poll

(***************************************************************************)
(* Bus: lcdWriteByte, lcdWriteCommand, lcdWriteData, lcdWriteDataBuffer    *)
(* (main.cpp 74-106), one digitalWrite per step                            *)
(***************************************************************************)
MaxBufLen == 2                                   \* longest buffer sent
Bytes     == {0, 1, 44, 47, 128, 176, 255}       \* 0x00 0x01 0x2C 0x2F 0x80 0xB0 0xFF

NoOp == [kind |-> "idle", bytes |-> <<>>]

BufsOfLen(n) == [1..n -> Bytes]
Ops ==
  { [kind |-> kd, bytes |-> <<b>>] : kd \in {"cmd", "data"}, b \in Bytes }
  \cup { [kind |-> "buf", bytes |-> bs] : bs \in UNION { BufsOfLen(n) : n \in 0..MaxBufLen } }

\* variant: the shift count running the other way
BitOut_LsbFirst(b, i) == (b \div (2 ^ (7 - i))) % 2

\* lcdWriteByte (77): (b >> i) & 0x01
BitOut(b, i) == (b \div (2 ^ i)) % 2

\* variant: the D/C level inverted
DcLevel_Inverted(kind) == IF kind = "cmd" THEN 1 ELSE 0

\* lcdWriteCommand (87), lcdWriteData (94), lcdWriteDataBuffer (101)
DcLevel(kind) == IF kind = "cmd" THEN 0 ELSE 1

\* levels after lcdInit (568-572) and after any transfer: CS and SCK high
BusInit ==
  /\ cs = 1 /\ sck = 1
  /\ dc \in {0, 1}
  /\ mosi \in {0, 1}
  /\ busOp = NoOp
  /\ bpc = "idle"
  /\ byteIdx = 0
  /\ bitIdx = -1
  /\ sampled = <<>>
  /\ dcAtEdge = <<>>
  /\ falls = 0

\* a transfer is called; its first pin write is lcdCS(LOW) (86, 93, 100)
BusStart(op) ==
  /\ bpc = "idle"
  /\ busOp' = op
  /\ cs' = 0
  /\ bpc' = "dc"
  /\ byteIdx' = 0
  /\ bitIdx' = -1
  /\ sampled' = <<>>
  /\ dcAtEdge' = <<>>
  /\ falls' = 0
  /\ UNCHANGED <<dc, sck, mosi>>
  /\ UNCHANGED <<gameVars, keyVars, drvVars>>

\* lcdDC(...) (87, 94, 101); the byte loop starts unless the buffer is empty
BusSetDC ==
  /\ bpc = "dc"
  /\ dc' = DcLevel(busOp.kind)
  /\ IF Len(busOp.bytes) = 0
       THEN bpc' = "csHigh" /\ UNCHANGED <<byteIdx, bitIdx>>
       ELSE bpc' = "sckLow" /\ byteIdx' = 1 /\ bitIdx' = 7
  /\ UNCHANGED <<cs, sck, mosi, busOp, sampled, dcAtEdge, falls>>
  /\ UNCHANGED <<gameVars, keyVars, drvVars>>

\* lcdSCK(LOW) (76)
BusSckLow ==
  /\ bpc = "sckLow"
  /\ sck' = 0
  /\ falls' = falls + (IF sck = 1 THEN 1 ELSE 0)
  /\ bpc' = "mosi"
  /\ UNCHANGED <<cs, dc, mosi, busOp, byteIdx, bitIdx, sampled, dcAtEdge>>
  /\ UNCHANGED <<gameVars, keyVars, drvVars>>

\* lcdMOSI((b >> i) & 0x01) (77)
BusSetMosi ==
  /\ bpc = "mosi"
  /\ mosi' = BitOut(busOp.bytes[byteIdx], bitIdx)
  /\ bpc' = "sckHigh"
  /\ UNCHANGED <<cs, dc, sck, busOp, byteIdx, bitIdx, sampled, dcAtEdge, falls>>
  /\ UNCHANGED <<gameVars, keyVars, drvVars>>

\* lcdSCK(HIGH) (79), then --i and the loop tests of 75 and 102
BusSckHigh ==
  /\ bpc = "sckHigh"
  /\ sck' = 1
  /\ sampled' = IF sck = 0 THEN Append(sampled, mosi) ELSE sampled
  /\ dcAtEdge' = IF sck = 0 THEN Append(dcAtEdge, dc) ELSE dcAtEdge
  /\ IF bitIdx > 0
       THEN bitIdx' = bitIdx - 1 /\ bpc' = "sckLow" /\ UNCHANGED byteIdx
       ELSE IF byteIdx < Len(busOp.bytes)
              THEN bitIdx' = 7 /\ byteIdx' = byteIdx + 1 /\ bpc' = "sckLow"
              ELSE bitIdx' = -1 /\ bpc' = "csHigh" /\ UNCHANGED byteIdx
  /\ UNCHANGED <<cs, dc, mosi, busOp, falls>>
  /\ UNCHANGED <<gameVars, keyVars, drvVars>>

\* lcdCS(HIGH) (89, 96, 105)
BusCsHigh ==
  /\ bpc = "csHigh"
  /\ cs' = 1
  /\ bpc' = "idle"
  /\ UNCHANGED <<dc, sck, mosi, busOp, byteIdx, bitIdx, sampled, dcAtEdge, falls>>
  /\ UNCHANGED <<gameVars, keyVars, drvVars>>

NextBus ==
  \/ \E op \in Ops : BusStart(op)
  \/ BusSetDC
  \/ BusSckLow
  \/ BusSetMosi
  \/ BusSckHigh
  \/ BusCsHigh

(***************************************************************************)
(* Display driver: the framebuffer and the functions that draw into it     *)
(* (main.cpp 25-30, 171-211).  The framebuffer has the program's size.     *)
(*   SpecFb   one call of the library on a framebuffer, then a pixel read  *)
(***************************************************************************)
LCD_WIDTH  == 132
LCD_HEIGHT == 48
LCD_PAGES  == 6

Pages   == 0..(LCD_PAGES - 1)
Columns == 0..(LCD_WIDTH - 1)

\* A framebuffer is held as the map of its non-zero cells: the cell
\* lcdBuffer[p][c] of the code is Cell(buf, p, c), and the assignment
\* lcdBuffer[p][c] = v is Put(buf, p, c, v).
Cell(buf, p, c) == IF <<p, c>> \in DOMAIN buf THEN buf[<<p, c>>] ELSE 0
Put(buf, p, c, v) ==
  IF v = 0
    THEN [k \in DOMAIN buf \ {<<p, c>>} |-> buf[k]]
    ELSE [k \in DOMAIN buf \cup {<<p, c>>} |-> IF k = <<p, c>> THEN v ELSE buf[k]]

\* bit b of byte v, and v with bit b set or cleared
BitOf(v, b)    == (v \div (2 ^ b)) % 2
OrBit(v, b)    == IF BitOf(v, b) = 1 THEN v ELSE v + 2 ^ b
ClearBit(v, b) == IF BitOf(v, b) = 1 THEN v - 2 ^ b ELSE v

\* lcdClearBuffer (172-174): every cell 0
lcdClearBuffer == [k \in {} |-> 0]

\* lcdFillBuffer (177-179): every cell the pattern
lcdFillBuffer(pattern) ==
  [k \in (IF pattern = 0 THEN {} ELSE Pages \X Columns) |-> pattern]

\* variant: the mask stored instead of being or-ed in or and-ed out
lcdSetPixel_Store(buf, x, y, on) ==
  IF x >= LCD_WIDTH \/ y >= LCD_HEIGHT THEN buf
  ELSE Put(buf, y \div 8, x, IF on THEN 2 ^ (y % 8) ELSE 255 - 2 ^ (y % 8))

\* lcdSetPixel (193-203) on framebuffer buf; x and y are uint8_t
lcdSetPixel(buf, x, y, on) ==
  IF x >= LCD_WIDTH \/ y >= LCD_HEIGHT THEN buf
  ELSE LET page == y \div 8
           bit  == y % 8
       IN  Put(buf, page, x, IF on THEN OrBit(Cell(buf, page, x), bit)
                                   ELSE ClearBit(Cell(buf, page, x), bit))

\* variant: the cell tested without the bit mask
lcdGetPixel_NoMask(buf, x, y) ==
  IF x >= LCD_WIDTH \/ y >= LCD_HEIGHT THEN FALSE
  ELSE Cell(buf, y \div 8, x) # 0

\* lcdGetPixel (206-211)
lcdGetPixel(buf, x, y) ==
  IF x >= LCD_WIDTH \/ y >= LCD_HEIGHT THEN FALSE
  ELSE LET page == y \div 8
           bit  == y % 8
       IN  BitOf(Cell(buf, page, x), bit) # 0

(***************************************************************************)
(* Text (main.cpp 137-140, 415-481).  The glyph tables font3x5[] and       *)
(* font5x7[] live in headers outside src/; the model gives every table     *)
(* entry a non-zero byte of the glyph height, different from its           *)
(* neighbours.  A character is its code 0..255, a string the sequence of   *)
(* its characters before the terminating 0.                                *)
(***************************************************************************)
FONT_3X5 == 0
FONT_5X7 == 1

font3x5(idx) == 1 + ((idx * 11) % 31)
font5x7(idx) == 1 + ((idx * 37) % 127)

\* getGlyph (415-446): the glyph's column bytes; its length is the width
getGlyph(c, font) ==
  IF font = FONT_3X5
    THEN IF c >= 32 /\ c <= 126
           THEN [i \in 1..3 |-> font3x5((c - 32) * 3 + (i - 1))]
           ELSE <<31, 17, 31>>
    ELSE [i \in 1..5 |-> font5x7(c * 5 + (i - 1))]

\* memory as the text functions see it: the framebuffer and the offsets past
\* its end that a store has reached
Mem(buf, o) == [buf |-> buf, oob |-> o]

\* the assignments lcdBuffer[page][c] = w[c] of one loop (457, 463), c ranging
\* over the domain of w, a set of columns below LCD_WIDTH; page is any uint8_t.
\* The byte stored to lies at offset page * LCD_WIDTH + c from the start of the
\* array.  Past the end of the array the store is undefined behaviour; the
\* model records the offset and leaves open what the byte belonged to.
StoreAll(m, page, w) ==
  LET in   == { c \in DOMAIN w : page * LCD_WIDTH + c < LCD_PAGES * LCD_WIDTH }
      zero == { <<page, c>> : c \in { d \in in : w[d] = 0 } }
      some == { <<page, c>> : c \in { d \in in : w[d] # 0 } }
  IN  [ buf |-> [k \in (DOMAIN m.buf \ zero) \cup some |->
                   IF k \in some THEN w[k[2]] ELSE m.buf[k]],
        oob |-> m.oob \cup { page * LCD_WIDTH + c : c \in (DOMAIN w) \ in } ]

\* lcdDrawChar (455-459): the stores of the glyph loop, i = 0..w-1
GlyphLoop(col, g) ==
  [c \in { col + i : i \in { j \in 0..(Len(g) - 1) : col + j < LCD_WIDTH } } |->
     g[c - col + 1]]

\* lcdDrawChar (462-464): the stores of the spacing loop, which runs while
\* i < spacing and first + i < LCD_WIDTH; first is the column after the glyph
SpacingLoop(first, spacing) ==
  [c \in { first + i : i \in { j \in 0..(spacing - 1) : first + j < LCD_WIDTH } } |-> 0]

\* variant: the overflow test made on the first column only
CharStores_FirstColumn(col, c, font, spacing) ==
  LET g == getGlyph(c, font)
  IN  IF col >= LCD_WIDTH THEN <<>>
      ELSE SpacingLoop(col + Len(g), spacing) @@ GlyphLoop(col, g)

\* lcdDrawChar (452-464): the stores of one call, column by column; none when
\* the glyph would pass the right edge (453).  A later store to a column
\* replaces an earlier one.
CharStores(col, c, font, spacing) ==
  LET g == getGlyph(c, font)
      w == Len(g)
  IN  IF col + w > LCD_WIDTH THEN <<>>
      ELSE SpacingLoop(col + w, spacing) @@ GlyphLoop(col, g)

\* lcdDrawChar (449-465); page, col and spacing are uint8_t
lcdDrawChar(m, page, col, c, font, spacing) ==
  StoreAll(m, page, CharStores(col, c, font, spacing))

\* lcdDrawText (469-474): the stores of the loop from character k (from 1) with
\* the cursor x, a uint8_t, at its column
RECURSIVE TextLoop(_, _, _, _)
TextLoop(x, text, k, font) ==
  IF k <= Len(text) /\ x < LCD_WIDTH
    THEN TextLoop(U8(x + (IF font = FONT_3X5 THEN 4 ELSE 6)), text, k + 1, font)
           @@ CharStores(x, text[k], font, 1)
    ELSE <<>>

\* lcdDrawText (468-475): every character is drawn on the same page
lcdDrawText(m, page, col, text, font) == StoreAll(m, page, TextLoop(col, text, 1, font))

\* snprintf(buf, sizeof(buf), "%d", num) (478-479): decimal digits, a minus sign
\* before them when num is negative; 12 bytes hold any int
RECURSIVE Decimal(_)
Decimal(num) ==
  IF num < 0 THEN <<45>> \o Decimal(-num)
  ELSE IF num < 10 THEN <<48 + num>>
  ELSE Append(Decimal(num \div 10), 48 + (num % 10))

\* lcdDrawNumber (477-481)
lcdDrawNumber(m, page, col, num, font) == lcdDrawText(m, page, col, Decimal(num), font)

\* framebuffers a call is made on: cleared, filled, and one whose cells are
\* non-zero and differ from their neighbours
FbPatterns ==
  { lcdClearBuffer, lcdFillBuffer(255),
    [k \in Pages \X Columns |-> 1 + ((k[1] * 41 + k[2] * 7) % 255)] }

NoCall == [fn |-> "none", args |-> <<>>]
NoLoc  == [at |-> 0]

\* the display driver at rest: cleared framebuffer (static storage), no call
\* made, reset pin released (lcdInit 570)
DrvIdle ==
  /\ lcdBuffer = lcdClearBuffer
  /\ oob = {}
  /\ call = NoCall
  /\ loc = NoLoc
  /\ fpc = "ready"
  /\ ret = FALSE
  /\ rst = 1
  /\ sent = <<>>
  /\ elapsed = 0

PixelCalls == {"lcdSetPixel", "lcdClearBuffer", "lcdFillBuffer"}

\* a call that only writes memory, made on a driver that is ready; m is the
\* memory it leaves
FbCall(fn, args, m) ==
  /\ fpc = "ready"
  /\ fpc' = "done"
  /\ call' = [fn |-> fn, args |-> args]
  /\ lcdBuffer' = m.buf
  /\ oob' = m.oob
  /\ UNCHANGED <<loc, ret, rst, sent, elapsed>>
  /\ UNCHANGED <<gameVars, keyVars, busVars>>

SetPixel(x, y, on) ==
  FbCall("lcdSetPixel", <<x, y, on>>, Mem(lcdSetPixel(lcdBuffer, x, y, on), oob))
ClearBuffer   == FbCall("lcdClearBuffer", <<>>, Mem(lcdClearBuffer, oob))
FillBuffer(p) == FbCall("lcdFillBuffer", <<p>>, Mem(lcdFillBuffer(p), oob))

DrawChar(page, col, c, font, spacing) ==
  FbCall("lcdDrawChar", <<page, col, c, font, spacing>>,
         lcdDrawChar(Mem(lcdBuffer, oob), page, col, c, font, spacing))
DrawText(page, col, text, font) ==
  FbCall("lcdDrawText", <<page, col, text, font>>,
         lcdDrawText(Mem(lcdBuffer, oob), page, col, text, font))
DrawNumber(page, col, num, font) ==
  FbCall("lcdDrawNumber", <<page, col, num, font>>,
         lcdDrawNumber(Mem(lcdBuffer, oob), page, col, num, font))

\* lcdGetPixel(x, y), called first or after one of the pixel calls
GetPixel(x, y) ==
  /\ fpc = "ready" \/ (fpc = "done" /\ call.fn \in PixelCalls)
  /\ fpc' = "read"
  /\ call' = [fn |-> "lcdGetPixel", args |-> <<x, y>>]
  /\ ret' = lcdGetPixel(lcdBuffer, x, y)
  /\ UNCHANGED <<lcdBuffer, oob, loc, rst, sent, elapsed>>
  /\ UNCHANGED <<gameVars, keyVars, busVars>>

(***************************************************************************)
(* lcdDrawLine (main.cpp 238-262), one iteration of its loop per step.     *)
(*   SpecLine  one call on a cleared framebuffer                           *)
(***************************************************************************)
\* a value stored into an int16_t (two's complement, the high bits dropped)
I16(n) == ((n + 32768) % 65536) - 32768

\* lcdDrawLine (252-260): the rest of an iteration that did not break
LineIter(l) ==
  LET e2 == I16(2 * l.err)
      a  == IF e2 > -l.dy
              THEN [l EXCEPT !.err = I16(l.err - l.dy), !.x0 = I16(l.x0 + l.sx)]
              ELSE l
  IN  IF e2 < l.dx
        THEN [a EXCEPT !.err = I16(a.err + l.dx), !.y0 = I16(a.y0 + l.sy)]
        ELSE a

\* lcdDrawLine is called (239-243); the arguments are int16_t
LineCall(x0, y0, x1, y1) ==
  /\ fpc = "ready"
  /\ fpc' = "loop"
  /\ call' = [fn |-> "lcdDrawLine", args |-> <<x0, y0, x1, y1>>]
  /\ loc' = LET dx == I16(IF x1 >= x0 THEN x1 - x0 ELSE x0 - x1)
                dy == I16(IF y1 >= y0 THEN y1 - y0 ELSE y0 - y1)
            IN  [ x0 |-> x0, y0 |-> y0, dx |-> dx, dy |-> dy,
                  sx |-> IF x0 < x1 THEN 1 ELSE -1,
                  sy |-> IF y0 < y1 THEN 1 ELSE -1,
                  err |-> I16(dx - dy) ]
  /\ UNCHANGED <<lcdBuffer, oob, ret, rst, sent, elapsed>>
  /\ UNCHANGED <<gameVars, keyVars, busVars>>

\* one iteration (246-260): plot when on screen, break at the end point,
\* otherwise move
LineStep ==
  /\ fpc = "loop"
  /\ lcdBuffer' = IF loc.x0 >= 0 /\ loc.x0 < LCD_WIDTH /\ loc.y0 >= 0 /\ loc.y0 < LCD_HEIGHT
                    THEN lcdSetPixel(lcdBuffer, loc.x0, loc.y0, TRUE)
                    ELSE lcdBuffer
  /\ IF loc.x0 = call.args[3] /\ loc.y0 = call.args[4]
       THEN fpc' = "done" /\ loc' = loc
       ELSE fpc' = "loop" /\ loc' = LineIter(loc)
  /\ UNCHANGED <<call, oob, ret, rst, sent, elapsed>>
  /\ UNCHANGED <<gameVars, keyVars, busVars>>

\* The lines drawn: both end points on or just off the screen, and one line
\* that starts at the least int16_t.
NextLine ==
  \/ \E x0, x1 \in {-2, 0, 10, 131}, y0, y1 \in {0, 5, 47, 50} : LineCall(x0, y0, x1, y1)
  \/ LineCall(-32768, 0, 0, 0)
  \/ LineStep

(***************************************************************************)
(* lcdInit (main.cpp 506-618) and lcdFlush (182-188), one bus transfer per *)
(* step; sent records what goes out on the pins.                           *)
(*   SpecInit   lcdInit() from power-up                                    *)
(*   SpecFlush  lcdFlush() of a framebuffer                                *)
(***************************************************************************)
INIT_SEQUENCE ==
  << 162, 161, 96, 69, 1,          \* 0xA2 0xA1 0x60 0x45 0x01
     44, 46, 47,                   \* 0x2C 0x2E 0x2F
     88, 8, 0, 0,                  \* 0x58 0x08 0x00 0x00
     0, 175, 64, 177, 16, 0,       \* 0x00 0xAF 0x40 0xB1 0x10 0x00
     0, 175, 64, 178, 16, 0,       \* 0x00 0xAF 0x40 0xB2 0x10 0x00
     0, 175, 64, 179, 16, 0 >>     \* 0x00 0xAF 0x40 0xB3 0x10 0x00

\* what goes out: lcdWriteCommand(b), lcdWriteData(b), lcdWriteDataBuffer(bs, n),
\* lcdRST(level)
Cmd(b)     == [kind |-> "cmd", bytes |-> <<b>>]
Data(b)    == [kind |-> "data", bytes |-> <<b>>]
Burst(bs)  == [kind |-> "buf", bytes |-> bs]
Rst(level) == [kind |-> "rst", bytes |-> <<level>>]

\* lcdSetPage (114-116): 0xB0 | (page & 0x0F)
lcdSetPage(page) == << Cmd(176 + (page % 16)) >>

\* lcdSetColumn (118-121): 0x10 | ((col >> 4) & 0x0F), then 0x00 | (col & 0x0F)
lcdSetColumn(col) == << Cmd(16 + ((col \div 16) % 16)), Cmd(col % 16) >>

\* variant: every command followed by the short delay
InitDelay_Short(i) == 1

\* lcdInit (584, 589, 593, 597, 602): the delay after INIT_SEQUENCE[i], i from 0
InitDelay(i) == IF i \in {5, 6, 7} THEN 100 ELSE 1

\* delay(n) returns after n milliseconds or a little later
Delayed(n) == {n, n + 1}

\* lcdInit is called; the idle levels (568-572) release the reset pin
InitStart ==
  /\ fpc = "ready"
  /\ fpc' = "rstLow"
  /\ call' = [fn |-> "lcdInit", args |-> <<>>]
  /\ rst' = 1
  /\ UNCHANGED <<lcdBuffer, oob, loc, ret, sent, elapsed>>
  /\ UNCHANGED <<gameVars, keyVars, busVars>>

\* lcdRST(LOW); delay(10) (575-576)
InitRstLow ==
  /\ fpc = "rstLow"
  /\ fpc' = "rstHigh"
  /\ rst' = 0
  /\ sent' = Append(sent, Rst(0))
  /\ elapsed' \in Delayed(10)
  /\ UNCHANGED <<lcdBuffer, oob, call, loc, ret>>
  /\ UNCHANGED <<gameVars, keyVars, busVars>>

\* lcdRST(HIGH); delay(2) (577-578)
InitRstHigh ==
  /\ fpc = "rstHigh"
  /\ fpc' = "seq"
  /\ rst' = 1
  /\ sent' = Append(sent, Rst(1))
  /\ elapsed' \in Delayed(2)
  /\ loc' = [at |-> 0]
  /\ UNCHANGED <<lcdBuffer, oob, call, ret>>
  /\ UNCHANGED <<gameVars, keyVars, busVars>>

\* lcdWriteCommand(INIT_SEQUENCE[i]) and the delay after it (582-603), i = loc.at
InitSeq ==
  /\ fpc = "seq"
  /\ sent' = Append(sent, Cmd(INIT_SEQUENCE[loc.at + 1]))
  /\ elapsed' \in Delayed(InitDelay(loc.at))
  /\ IF loc.at + 1 < Len(INIT_SEQUENCE)
       THEN fpc' = "seq" /\ loc' = [at |-> loc.at + 1]
       ELSE fpc' = "page" /\ loc' = [at |-> 0]
  /\ UNCHANGED <<lcdBuffer, oob, call, ret, rst>>
  /\ UNCHANGED <<gameVars, keyVars, busVars>>

\* lcdSetPage(page); lcdSetColumn(0) of the two clearing loops (607-608,
\* 614-615), which together run page = loc.at from 0 to 7
InitPage ==
  /\ fpc = "page"
  /\ fpc' = "data"
  /\ sent' = sent \o lcdSetPage(loc.at) \o lcdSetColumn(0)
  /\ elapsed' = 0
  /\ loc' = [at |-> loc.at, i |-> 0]
  /\ UNCHANGED <<lcdBuffer, oob, call, ret, rst>>
  /\ UNCHANGED <<gameVars, keyVars, busVars>>

\* lcdWriteData(0x00) (609, 616), i = loc.i running to LCD_WIDTH
InitData ==
  /\ fpc = "data"
  /\ sent' = Append(sent, Data(0))
  /\ elapsed' = 0
  /\ IF loc.i + 1 < LCD_WIDTH
       THEN fpc' = "data" /\ loc' = [loc EXCEPT !.i = loc.i + 1]
       ELSE IF loc.at + 1 < 8
              THEN fpc' = "page" /\ loc' = [at |-> loc.at + 1]
              ELSE fpc' = "done" /\ loc' = NoLoc
  /\ UNCHANGED <<lcdBuffer, oob, call, ret, rst>>
  /\ UNCHANGED <<gameVars, keyVars, busVars>>

NextInit ==
  \/ InitStart
  \/ InitRstLow
  \/ InitRstHigh
  \/ InitSeq
  \/ InitPage
  \/ InitData

\* lcdFlush is called; page = loc.at starts at 0
FlushStart ==
  /\ fpc = "ready"
  /\ fpc' = "page"
  /\ call' = [fn |-> "lcdFlush", args |-> <<>>]
  /\ loc' = [at |-> 0]
  /\ UNCHANGED <<lcdBuffer, oob, ret, rst, sent, elapsed>>
  /\ UNCHANGED <<gameVars, keyVars, busVars>>

\* lcdSetPage(page); lcdSetColumn(0); lcdWriteDataBuffer selects the chip
\* for data (183-185, 100-101)
FlushPage ==
  /\ fpc = "page"
  /\ fpc' = "burst"
  /\ sent' = sent \o lcdSetPage(loc.at) \o lcdSetColumn(0) \o << Burst(<<>>) >>
  /\ loc' = [at |-> loc.at, i |-> 0]
  /\ UNCHANGED <<lcdBuffer, oob, call, ret, rst, elapsed>>
  /\ UNCHANGED <<gameVars, keyVars, busVars>>

\* variant: the row of the first page whatever the page
Row_FirstPage(buf, page, i) == Cell(buf, 0, i)

\* lcdBuffer[page][i], the byte lcdWriteDataBuffer is handed (186, 103)
Row(buf, page, i) == Cell(buf, page, i)

\* lcdWriteByte(buf[i]) inside the burst (102-104); after the last byte the
\* chip is released and the page loop goes on (105, 183)
FlushByte ==
  /\ fpc = "burst"
  /\ sent' = [sent EXCEPT ![Len(sent)].bytes = Append(@, Row(lcdBuffer, loc.at, loc.i))]
  /\ IF loc.i + 1 < LCD_WIDTH
       THEN fpc' = "burst" /\ loc' = [loc EXCEPT !.i = loc.i + 1]
       ELSE IF loc.at + 1 < LCD_PAGES
              THEN fpc' = "page" /\ loc' = [at |-> loc.at + 1]
              ELSE fpc' = "done" /\ loc' = NoLoc
  /\ UNCHANGED <<lcdBuffer, oob, call, ret, rst, elapsed>>
  /\ UNCHANGED <<gameVars, keyVars, busVars>>

NextFlush ==
  \/ FlushStart
  \/ FlushPage
  \/ FlushByte

(***************************************************************************)
(* Frames of the game (main.cpp 873-878, 881-915) on the program's own     *)
(* grid, one library call per step and lcdFlush byte by byte.              *)
(*   SpecFrame  frames drawn one after the other                           *)
(***************************************************************************)
HUD_HEIGHT    == 8
CELL          == 4
GRID_OFFSET_Y == HUD_HEIGHT

\* lcdSetPixel(x, y) for every pixel of px, all of them on the screen
SetPixels(buf, px) ==
  LET bits(k) == { b \in 0..7 : <<k[2], 8 * k[1] + b>> \in px \/ BitOf(Cell(buf, k[1], k[2]), b) = 1 }
      byte(k) == LET on(b) == IF b \in bits(k) THEN 2 ^ b ELSE 0
                 IN  on(0) + on(1) + on(2) + on(3) + on(4) + on(5) + on(6) + on(7)
      cells   == { <<q[2] \div 8, q[1]>> : q \in px }
  IN  [k \in DOMAIN buf \cup cells |-> IF k \in cells THEN byte(k) ELSE buf[k]]

\* lcdDrawHLine (214-223); x0, x1 and y are uint8_t
lcdDrawHLine(buf, x0, x1, y) ==
  LET lo == IF x0 > x1 THEN x1 ELSE x0
      hi == IF x0 > x1 THEN x0 ELSE x1
      to == IF hi >= LCD_WIDTH THEN LCD_WIDTH - 1 ELSE hi
  IN  IF y >= LCD_HEIGHT \/ lo >= LCD_WIDTH THEN buf
      ELSE [k \in DOMAIN buf \cup { <<y \div 8, x>> : x \in lo..to } |->
              IF k[1] = y \div 8 /\ k[2] \in lo..to
                THEN OrBit(Cell(buf, k[1], k[2]), y % 8)
                ELSE buf[k]]

\* lcdDrawVLine (226-235)
lcdDrawVLine(buf, x, y0, y1) ==
  LET lo == IF y0 > y1 THEN y1 ELSE y0
      hi == IF y0 > y1 THEN y0 ELSE y1
      to == IF hi >= LCD_HEIGHT THEN LCD_HEIGHT - 1 ELSE hi
  IN  IF x >= LCD_WIDTH \/ lo >= LCD_HEIGHT THEN buf
      ELSE SetPixels(buf, { <<x, y>> : y \in lo..to })

\* lcdDrawRect (265-271): the int sums are narrowed to the uint8_t parameters
lcdDrawRect(buf, x, y, w, h) ==
  IF w = 0 \/ h = 0 THEN buf
  ELSE LET right  == U8(x + w - 1)
           bottom == U8(y + h - 1)
           top2   == lcdDrawHLine(lcdDrawHLine(buf, x, right, y), x, right, bottom)
       IN  lcdDrawVLine(lcdDrawVLine(top2, x, y, bottom), right, y, bottom)

\* lcdFillRect (274-285) for a call whose loops end (x1 and y1 below 255)
lcdFillRect(buf, x, y, w, h) ==
  IF x >= LCD_WIDTH \/ y >= LCD_HEIGHT THEN buf
  ELSE LET x1 == IF x + w > LCD_WIDTH THEN LCD_WIDTH - 1 ELSE U8(x + w - 1)
           y1 == IF y + h > LCD_HEIGHT THEN LCD_HEIGHT - 1 ELSE U8(y + h - 1)
       IN  SetPixels(buf, { <<cx, cy>> : cx \in x..x1, cy \in y..y1 })

LibCall(fn, args) == [fn |-> fn, args |-> args]

\* drawCell (881-888): the lcdFillRect it makes
drawCell(gx, gy) ==
  LET x == U8(gx * CELL)
      y == U8(GRID_OFFSET_Y + gy * CELL)
      w == IF CELL >= 2 THEN CELL - 2 ELSE CELL
  IN  LibCall("lcdFillRect", <<U8(x + 1), U8(y + 1), w, w>>)

\* "SNAKE  Pts:" with the score after it (876-877, 896-897)
HudCalls(sc) ==
  << LibCall("lcdDrawText", <<0, 2, <<83, 78, 65, 75, 69, 32, 32, 80, 116, 115, 58>>, FONT_5X7>>),
     LibCall("lcdDrawNumber", <<0, 70, sc, FONT_5X7>>) >>

\* snakeReset (874-878): the library calls of its frame, in order
snakeResetCalls(sc) ==
  << LibCall("lcdClearBuffer", <<>>),
     LibCall("lcdDrawRect", <<0, 0, LCD_WIDTH, LCD_HEIGHT>>) >>
  \o HudCalls(sc)
  \o << LibCall("lcdFlush", <<>>) >>

\* variant: the flush made before the food and the snake are drawn
renderGameCalls_FlushEarly(s, len, f, sc, over, psd) ==
  << LibCall("lcdClearBuffer", <<>>),
     LibCall("lcdDrawRect", <<0, GRID_OFFSET_Y, LCD_WIDTH, LCD_HEIGHT - GRID_OFFSET_Y>>) >>
  \o HudCalls(sc)
  \o << LibCall("lcdFlush", <<>>) >>
  \o << drawCell(f.x, f.y) >>
  \o [i \in 1..len |-> drawCell(s[i].x, s[i].y)]

\* renderGame (890-915): the library calls of its frame, in order
renderGameCalls(s, len, f, sc, over, psd) ==
  << LibCall("lcdClearBuffer", <<>>),
     LibCall("lcdDrawRect", <<0, GRID_OFFSET_Y, LCD_WIDTH, LCD_HEIGHT - GRID_OFFSET_Y>>) >>
  \o HudCalls(sc)
  \o << drawCell(f.x, f.y) >>
  \o [i \in 1..len |-> drawCell(s[i].x, s[i].y)]
  \o ( IF over
         THEN << LibCall("lcdDrawText", <<2, 30, <<71, 65, 77, 69, 32, 79, 86, 69, 82>>, FONT_5X7>>),
                 LibCall("lcdDrawText", <<4, 10, <<79, 75, 32, 61, 32, 82, 101, 105, 110, 105,
                                                   99, 105, 97, 114>>, FONT_3X5>>) >>
         ELSE IF psd
           THEN << LibCall("lcdDrawText", <<2, 40, <<80, 65, 85, 83, 69>>, FONT_5X7>>) >>
           ELSE <<>> )
  \o << LibCall("lcdFlush", <<>>) >>

\* the memory a framebuffer call leaves
Exec(c, m) ==
  LET a == c.args IN
  CASE c.fn = "lcdClearBuffer" -> Mem(lcdClearBuffer, m.oob)
    [] c.fn = "lcdDrawRect"    -> Mem(lcdDrawRect(m.buf, a[1], a[2], a[3], a[4]), m.oob)
    [] c.fn = "lcdFillRect"    -> Mem(lcdFillRect(m.buf, a[1], a[2], a[3], a[4]), m.oob)
    [] c.fn = "lcdDrawText"    -> lcdDrawText(m, a[1], a[2], a[3], a[4])
    [] c.fn = "lcdDrawNumber"  -> lcdDrawNumber(m, a[1], a[2], a[3], a[4])

\* the program's grid (818-819)
LcdGrid == [cols |-> LCD_WIDTH \div CELL, rows |-> (LCD_HEIGHT - HUD_HEIGHT) \div CELL]

\* game states a frame is drawn from: after a reset, in play with the snake
\* across the left and right edge and its tail doubled by a meal, and game over
FrameStates ==
  { [snake |-> ResetSnake, food |-> Point(32, 9), score |-> 0, gameOver |-> FALSE],
    [snake |-> << Point(0, 0), Point(32, 0), Point(31, 0), Point(31, 0) >>,
     food |-> Point(5, 9), score |-> 12, gameOver |-> FALSE],
    [snake |-> << Point(16, 4), Point(16, 5), Point(17, 5), Point(17, 4), Point(16, 4) >>,
     food |-> Point(0, 3), score |-> 104, gameOver |-> TRUE] }

\* the calls of the function drawing the present frame
FrameCalls ==
  IF pc.fn = "snakeReset" THEN snakeResetCalls(score)
  ELSE IF pc.fn = "renderGame"
    THEN renderGameCalls(snake, snakeLen, food, score, gameOver, paused)
    ELSE <<>>

\* snakeReset or renderGame is entered with the game in state g (snakeReset
\* has just put it there); sent starts again with each frame
FrameBegin(fn, g) ==
  /\ pc.at = Len(FrameCalls) /\ fpc \in {"ready", "done"}
  /\ fn = "snakeReset" => g.snake = ResetSnake
  /\ pc' = [fn |-> fn, at |-> 0]
  /\ snake' = g.snake /\ snakeLen' = Len(g.snake)
  /\ food' = g.food /\ score' = g.score /\ gameOver' = g.gameOver
  /\ started' = TRUE
  /\ sent' = <<>>
  /\ fpc' = "ready"
  /\ UNCHANGED <<grid, dirX, dirY, nextDirX, nextDirY, paused, okHeld, tickMs, lastTick, frames, okLast>>
  /\ UNCHANGED <<lcdBuffer, oob, call, loc, ret, rst, elapsed>>
  /\ UNCHANGED <<keyVars, busVars>>

\* the next library call of the frame: a drawing call is made whole, lcdFlush
\* is entered (182-183) and goes on with FlushPage and FlushByte
FrameStep ==
  /\ pc.at < Len(FrameCalls) /\ fpc \in {"ready", "done"}
  /\ pc' = [pc EXCEPT !.at = @ + 1]
  /\ call' = FrameCalls[pc.at + 1]
  /\ IF call'.fn = "lcdFlush"
       THEN /\ fpc' = "page"
            /\ loc' = [at |-> 0]
            /\ UNCHANGED <<lcdBuffer, oob>>
       ELSE /\ fpc' = "done"
            /\ lcdBuffer' = Exec(call', Mem(lcdBuffer, oob)).buf
            /\ oob' = Exec(call', Mem(lcdBuffer, oob)).oob
            /\ UNCHANGED loc
  /\ UNCHANGED <<grid, snake, snakeLen, dirX, dirY, nextDirX, nextDirY, food, gameOver,
                 paused, okHeld, score, tickMs, lastTick, started, frames, okLast>>
  /\ UNCHANGED <<ret, rst, sent, elapsed>>
  /\ UNCHANGED <<keyVars, busVars>>

NextFrame ==
  \/ \E fn \in {"snakeReset", "renderGame"}, g \in FrameStates : FrameBegin(fn, g)
  \/ FrameStep
  \/ FlushPage
  \/ FlushByte

(***************************************************************************)
(* placeFood (main.cpp 843-854), one loop iteration per step.              *)
(*   SpecFood  placeFood() called on a snake that leaves a cell free       *)
(***************************************************************************)
FOOD_ATTEMPTS == 100

\* placeFood is called
FoodCall ==
  /\ fpc = "ready"
  /\ fpc' = "draw"
  /\ call' = [fn |-> "placeFood", args |-> <<>>]
  /\ loc' = [attempts |-> 0]
  /\ UNCHANGED <<lcdBuffer, oob, ret, rst, sent, elapsed>>
  /\ UNCHANGED <<gameVars, keyVars, busVars>>

\* one iteration of the sampling loop (844-848); fx and fy are the values
\* random(0, GRID_COLS) and random(0, GRID_ROWS) return
FoodDraw(fx, fy) ==
  /\ fpc = "draw"
  /\ IF ~snakeOccupies(snake, snakeLen, fx, fy)
       THEN /\ food' = Point(fx, fy)
            /\ fpc' = "done"
            /\ UNCHANGED loc
       ELSE /\ food' = food
            /\ IF loc.attempts + 1 < FOOD_ATTEMPTS
                 THEN fpc' = "draw" /\ loc' = [attempts |-> loc.attempts + 1]
                 ELSE fpc' = "scan" /\ loc' = [x |-> 0, y |-> 0]
  /\ UNCHANGED <<grid, snake, snakeLen, dirX, dirY, nextDirX, nextDirY, gameOver,
                 paused, okHeld, score, tickMs, lastTick, started, pc, frames, okLast>>
  /\ UNCHANGED <<lcdBuffer, oob, call, ret, rst, sent, elapsed>>
  /\ UNCHANGED <<keyVars, busVars>>

\* one iteration of the scan (849-853): y outer, x inner
FoodScan ==
  /\ fpc = "scan"
  /\ IF ~snakeOccupies(snake, snakeLen, loc.x, loc.y)
       THEN /\ food' = Point(loc.x, loc.y)
            /\ fpc' = "done"
            /\ UNCHANGED loc
       ELSE /\ food' = food
            /\ IF loc.x + 1 < GRID_COLS
                 THEN fpc' = "scan" /\ loc' = [x |-> loc.x + 1, y |-> loc.y]
                 ELSE IF loc.y + 1 < GRID_ROWS
                        THEN fpc' = "scan" /\ loc' = [x |-> 0, y |-> loc.y + 1]
                        ELSE fpc' = "done" /\ loc' = [x |-> 0, y |-> loc.y + 1]
  /\ UNCHANGED <<grid, snake, snakeLen, dirX, dirY, nextDirX, nextDirY, gameOver,
                 paused, okHeld, score, tickMs, lastTick, started, pc, frames, okLast>>
  /\ UNCHANGED <<lcdBuffer, oob, call, ret, rst, sent, elapsed>>
  /\ UNCHANGED <<keyVars, busVars>>

NextFood ==
  \/ FoodCall
  \/ \E fx \in 0..(GRID_COLS - 1), fy \in 0..(GRID_ROWS - 1) : FoodDraw(fx, fy)
  \/ FoodScan

(***************************************************************************)
(* lcdFillTriangle (main.cpp 330-370), one scanline per step.              *)
(*   SpecTri  lcdFillTriangle() on a cleared framebuffer                   *)
(***************************************************************************)
\* the quotient of C, rounded toward zero; d is positive
CDiv(n, d) == IF n >= 0 THEN n \div d ELSE -((-n) \div d)

\* the three exchanges that order the vertices by y (332-334)
TriSort(x0, y0, x1, y1, x2, y2) ==
  LET s1 == IF y0 > y1 THEN <<x1, y1, x0, y0, x2, y2>> ELSE <<x0, y0, x1, y1, x2, y2>>
      s2 == IF s1[4] > s1[6] THEN <<s1[1], s1[2], s1[5], s1[6], s1[3], s1[4]>> ELSE s1
  IN  IF s2[2] > s2[4] THEN <<s2[3], s2[4], s2[1], s2[2], s2[5], s2[6]>> ELSE s2

\* the locals when the second loop is reached (360-362), and whether it runs
TriLower(l) ==
  [ l EXCEPT !.sa = (l.x2 - l.x1) * (l.last - l.y0),
             !.sb = (l.x2 - l.x0) * (l.y1 - l.y0),
             !.y  = l.last + 1 ]

TriAt(l) == IF l.y <= l.y2 THEN "lower" ELSE "done"

\* lcdFillTriangle is called: the vertices are ordered; three vertices on one
\* scanline are drawn at once (336-341), otherwise the first loop is reached
TriCall(x0, y0, x1, y1, x2, y2) ==
  LET v == TriSort(x0, y0, x1, y1, x2, y2)
      l == [ x0 |-> v[1], y0 |-> v[2], x1 |-> v[3], y1 |-> v[4], x2 |-> v[5], y2 |-> v[6],
             last |-> IF v[4] = v[6] THEN v[4] ELSE v[4] - 1,
             y |-> v[2], sa |-> 0, sb |-> 0, a |-> 0, b |-> 0 ]
      a1 == IF l.x1 < l.x0 THEN l.x1 ELSE l.x0
      b1 == IF l.x1 < l.x0 THEN l.x0 ELSE IF l.x1 > l.x0 THEN l.x1 ELSE l.x0
      a2 == IF l.x2 < a1 THEN l.x2 ELSE a1
      b2 == IF l.x2 < a1 THEN b1 ELSE IF l.x2 > b1 THEN l.x2 ELSE b1
  IN  /\ fpc = "ready"
      /\ call' = [fn |-> "lcdFillTriangle", args |-> <<x0, y0, x1, y1, x2, y2>>]
      /\ IF l.y0 = l.y2
           THEN /\ fpc' = "done"
                /\ loc' = [l EXCEPT !.a = a2, !.b = b2, !.y = l.y0 + 1]
                /\ lcdBuffer' = lcdDrawHLine(lcdBuffer, U8(a2), U8(b2), U8(l.y0))
           ELSE /\ IF l.y0 <= l.last
                     THEN fpc' = "upper" /\ loc' = l
                     ELSE fpc' = TriAt(TriLower(l)) /\ loc' = TriLower(l)
                /\ UNCHANGED lcdBuffer
      /\ UNCHANGED <<oob, ret, rst, sent, elapsed>>
      /\ UNCHANGED <<gameVars, keyVars, busVars>>

\* one iteration of the first loop (352-359) or of the second (363-369): the
\* two ends are computed, ordered and narrowed to the uint8_t parameters of
\* lcdDrawHLine; a and b keep the ordered ends
TriStep ==
  /\ fpc \in {"upper", "lower"}
  /\ LET l   == loc
         up  == fpc = "upper"
         a0  == IF up THEN I16(l.x0 + CDiv(l.sa, l.y2 - l.y0))
                      ELSE I16(l.x1 + CDiv(l.sa, l.y2 - l.y1))
         b0  == IF up THEN I16(l.x0 + CDiv(l.sb, l.y1 - l.y0))
                      ELSE I16(l.x0 + CDiv(l.sb, l.y2 - l.y0))
         a   == IF a0 > b0 THEN b0 ELSE a0
         b   == IF a0 > b0 THEN a0 ELSE b0
         nx  == [ l EXCEPT !.sa = l.sa + (IF up THEN l.x2 - l.x0 ELSE l.x2 - l.x1),
                           !.sb = l.sb + (IF up THEN l.x1 - l.x0 ELSE l.x2 - l.x0),
                           !.a = a, !.b = b, !.y = l.y + 1 ]
     IN  /\ lcdBuffer' = lcdDrawHLine(lcdBuffer, U8(a), U8(b), U8(l.y))
         /\ IF up
              THEN IF nx.y <= nx.last
                     THEN fpc' = "upper" /\ loc' = nx
                     ELSE fpc' = TriAt(TriLower(nx)) /\ loc' = TriLower(nx)
              ELSE fpc' = TriAt(nx) /\ loc' = nx
  /\ UNCHANGED <<call, oob, ret, rst, sent, elapsed>>
  /\ UNCHANGED <<gameVars, keyVars, busVars>>

\* The triangles filled: vertices on the screen and a little to its left,
\* in every order, flat and upright ones included.
NextTri ==
  \/ \E x0, x1, x2 \in {-5, 0, 5, 10}, y0, y1, y2 \in {0, 10, 20} :
        TriCall(x0, y0, x1, y1, x2, y2)
  \/ TriStep

(***************************************************************************)
(* lcdDrawCircle (main.cpp 288-320), one iteration per step.               *)
(*   SpecCircle  lcdDrawCircle() on a cleared framebuffer                  *)
(***************************************************************************)
\* variant: the octant (x0 + y, y0 - x) left out
CirclePoints_Seven(x0, y0, x, y) ==
  << <<x0 + x, y0 + y>>, <<x0 + y, y0 + x>>, <<x0 - y, y0 + x>>, <<x0 - x, y0 + y>>,
     <<x0 - x, y0 - y>>, <<x0 - y, y0 - x>>, <<x0 + x, y0 - y>> >>

\* the eight points of one iteration (294-309), in the order of the code
CirclePoints(x0, y0, x, y) ==
  << <<x0 + x, y0 + y>>, <<x0 + y, y0 + x>>, <<x0 - y, y0 + x>>, <<x0 - x, y0 + y>>,
     <<x0 - x, y0 - y>>, <<x0 - y, y0 - x>>, <<x0 + y, y0 - x>>, <<x0 + x, y0 - y>> >>

\* each point is tested against the screen and set when it is on it (the
\* set of the points on the screen is bound, so that it is evaluated once)
PlotAll(buf, pts) ==
  LET on == { q \in { pts[i] : i \in 1..Len(pts) } :
                q[1] >= 0 /\ q[1] < LCD_WIDTH /\ q[2] >= 0 /\ q[2] < LCD_HEIGHT }
  IN  CHOOSE f \in { SetPixels(buf, px) : px \in {on} } : TRUE

\* lcdDrawCircle is called (289-291); r is uint8_t
CircleCall(x0, y0, r) ==
  /\ fpc = "ready"
  /\ fpc' = "circle"
  /\ call' = [fn |-> "lcdDrawCircle", args |-> <<x0, y0, r>>]
  /\ loc' = [x |-> r, y |-> 0, err |-> 0]
  /\ UNCHANGED <<lcdBuffer, oob, ret, rst, sent, elapsed>>
  /\ UNCHANGED <<gameVars, keyVars, busVars>>

\* one iteration of while (x >= y) (293-319)
CircleStep ==
  /\ fpc = "circle"
  /\ lcdBuffer' = PlotAll(lcdBuffer, CirclePoints(call.args[1], call.args[2], loc.x, loc.y))
  /\ LET y1   == IF loc.err <= 0 THEN I16(loc.y + 1) ELSE loc.y
         err1 == IF loc.err <= 0 THEN I16(loc.err + 2 * y1 + 1) ELSE loc.err
         x1   == IF err1 > 0 THEN I16(loc.x - 1) ELSE loc.x
         err2 == IF err1 > 0 THEN I16(err1 - (2 * x1 + 1)) ELSE err1
     IN  /\ loc' = [x |-> x1, y |-> y1, err |-> err2]
         /\ fpc' = IF x1 >= y1 THEN "circle" ELSE "done"
  /\ UNCHANGED <<call, oob, ret, rst, sent, elapsed>>
  /\ UNCHANGED <<gameVars, keyVars, busVars>>

\* The circles drawn: every radius about the middle of the screen, and the
\* radii that fit the screen about three more centres.
NextCircle ==
  \/ \E r \in 0..255 : CircleCall(66, 24, r)
  \/ \E c \in { <<20, 20>>, <<23, 23>>, <<108, 24>> }, r \in 0..23 : CircleCall(c[1], c[2], r)
  \/ CircleStep

(***************************************************************************)
(* lcdFillRect (main.cpp 274-285), one test of the inner loop per step.    *)
(*   SpecRect  lcdFillRect() on a cleared framebuffer                      *)
(***************************************************************************)
\* lcdFillRect is called (274-280): the early return, x1 and y1 narrowed to
\* uint8_t, and the first test of the outer loop
RectCall(x, y, w, h) ==
  /\ fpc = "ready"
  /\ call' = [fn |-> "lcdFillRect", args |-> <<x, y, w, h>>]
  /\ IF x >= LCD_WIDTH \/ y >= LCD_HEIGHT
       THEN fpc' = "done" /\ loc' = NoLoc
       ELSE LET x1 == IF x + w > LCD_WIDTH THEN LCD_WIDTH - 1 ELSE U8(x + w - 1)
                y1 == IF y + h > LCD_HEIGHT THEN LCD_HEIGHT - 1 ELSE U8(y + h - 1)
            IN  /\ loc' = [x1 |-> x1, y1 |-> y1, cx |-> x, cy |-> y]
                /\ fpc' = IF y <= y1 THEN "rect" ELSE "done"
  /\ UNCHANGED <<lcdBuffer, oob, ret, rst, sent, elapsed>>
  /\ UNCHANGED <<gameVars, keyVars, busVars>>

\* one test of cx <= x1 (281): the pixel is set and cx counted up, or the row
\* is over and cy is counted up and tested (280); both counters are uint8_t
RectStep ==
  /\ fpc = "rect"
  /\ IF loc.cx <= loc.x1
       THEN /\ lcdBuffer' = lcdSetPixel(lcdBuffer, loc.cx, loc.cy, TRUE)
            /\ loc' = [loc EXCEPT !.cx = U8(loc.cx + 1)]
            /\ fpc' = "rect"
       ELSE /\ lcdBuffer' = lcdBuffer
            /\ loc' = [loc EXCEPT !.cx = call.args[1], !.cy = U8(loc.cy + 1)]
            /\ fpc' = IF U8(loc.cy + 1) <= loc.y1 THEN "rect" ELSE "done"
  /\ UNCHANGED <<call, oob, ret, rst, sent, elapsed>>
  /\ UNCHANGED <<gameVars, keyVars, busVars>>

\* The rectangles filled: corners at the origin, inside and at the far edge of
\* the screen and past it, sizes from 0 to 255.
NextRect ==
  \/ \E x \in {0, 5, 130, 132}, y \in {0, 5, 46, 48}, w \in {0, 1, 3, 255}, h \in {0, 2, 255} :
        RectCall(x, y, w, h)
  \/ RectStep

(***************************************************************************)
(* Specifications                                                       *)
(***************************************************************************)
\* pin levels lcdInit leaves behind (568-572, 616): the last transfer was lcdWriteData(0x00)
BusIdle == BusInit /\ dc = 1 /\ mosi = 0

Init == GameInit /\ KeyInit /\ BusIdle /\ DrvIdle
Spec == Init /\ [][Next]_vars

InitKey == GameInit /\ grid.rows = 2 /\ KeyInit /\ BusIdle /\ DrvIdle
SpecKey == InitKey /\ [][NextKey]_vars

InitBus == GameInit /\ grid.rows = 2 /\ KeyInit /\ BusInit /\ DrvIdle
SpecBus == InitBus /\ [][NextBus]_vars

\* the game, the keypad and the bus at rest while the driver is exercised
RestIdle == GameInit /\ grid.rows = 2 /\ KeyInit /\ BusIdle

\* The calls made: uint8_t coordinates on both sides of LCD_WIDTH and
\* LCD_HEIGHT, pages on both sides of LCD_PAGES, columns around the right edge,
\* strings that fit and one that does not.
NextFb ==
  \/ \E x \in {0, 1, 77, 131, 132, 255}, y \in {0, 7, 8, 29, 47, 48, 255},
        on \in BOOLEAN : SetPixel(x, y, on)
  \/ \E x \in {0, 1, 77, 131, 132, 255}, y \in {0, 7, 8, 29, 47, 48, 255} :
        GetPixel(x, y)
  \/ ClearBuffer
  \/ \E p \in {0, 90, 255} : FillBuffer(p)
  \/ \E page \in {0, 5, 6, 255},
        col \in {0, 2, 100, 126, 127, 128, 129, 131, 132, 255},
        c \in {32, 65, 200}, font \in {FONT_3X5, FONT_5X7},
        spacing \in {0, 1, 3, 255} : DrawChar(page, col, c, font, spacing)
  \/ \E page \in {0, 5, 6, 255},
        col \in {0, 2, 100, 126, 127, 128, 129, 131, 132, 255},
        text \in { <<>>, <<65>>, <<83, 78, 65, 75, 69, 32, 32, 80, 116, 115, 58>>,
                   [i \in 1..40 |-> 64 + i] },
        font \in {FONT_3X5, FONT_5X7} : DrawText(page, col, text, font)
  \/ \E page \in {0, 5, 6, 255},
        col \in {0, 2, 100, 126, 127, 128, 129, 131, 132, 255},
        num \in {0, 7, 132, 65535, -12, 2147483647},
        font \in {FONT_3X5, FONT_5X7} : DrawNumber(page, col, num, font)

InitFb ==
  /\ RestIdle
  /\ lcdBuffer \in FbPatterns
  /\ oob = {} /\ call = NoCall /\ loc = NoLoc /\ fpc = "ready" /\ ret = FALSE
  /\ rst = 1 /\ sent = <<>> /\ elapsed = 0
SpecFb == InitFb /\ [][NextFb]_vars

\* lcdFlush of a framebuffer
SpecFlush == InitFb /\ [][NextFlush]_vars

\* lcdInit has returned and loop() is about to draw its first frame
InitFrame ==
  /\ grid = LcdGrid
  /\ snake = <<>> /\ snakeLen = 0
  /\ dirX = 1 /\ dirY = 0 /\ nextDirX = 1 /\ nextDirY = 0
  /\ food = Point(0, 0)
  /\ gameOver = FALSE /\ paused = FALSE /\ okHeld = FALSE
  /\ score = 0 /\ tickMs = TICK_START /\ lastTick = 0
  /\ started = FALSE
  /\ pc = [fn |-> "loop", at |-> 0]
  /\ frames = <<>> /\ okLast = FALSE
  /\ KeyInit /\ BusIdle /\ DrvIdle
SpecFrame == InitFrame /\ [][NextFrame]_vars

\* snakes placeFood is called on: one to five cells of the two-row torus in
\* row-major order, a cell possibly held by several indices (a snake that has
\* just grown holds its tail cell twice)
FoodSnakes ==
  { s \in UNION { [1..n -> Cells] : n \in 1..(TorusCols * 2 - 1) } :
      \A i \in 1..(Len(s) - 1) :
        s[i].y * GRID_COLS + s[i].x <= s[i + 1].y * GRID_COLS + s[i + 1].x }

InitFood ==
  /\ grid = [cols |-> TorusCols, rows |-> 2]
  /\ snake \in FoodSnakes /\ snakeLen = Len(snake)
  /\ dirX = 1 /\ dirY = 0 /\ nextDirX = 1 /\ nextDirY = 0
  /\ food = Point(0, 0)
  /\ gameOver = FALSE /\ paused = FALSE /\ okHeld = FALSE
  /\ score = 0 /\ tickMs = TICK_START /\ lastTick = 0
  /\ started = TRUE
  /\ pc = "tick"
  /\ frames = <<>> /\ okLast = FALSE
  /\ KeyInit /\ BusIdle /\ DrvIdle

\* each loop of placeFood goes on to its next iteration
SpecFood ==
  /\ InitFood /\ [][NextFood]_vars
  /\ WF_vars(\E fx \in 0..(GRID_COLS - 1), fy \in 0..(GRID_ROWS - 1) : FoodDraw(fx, fy))
  /\ WF_vars(FoodScan)

\* power-up: nothing has gone out yet, the framebuffer is cleared
InitDrv  == RestIdle /\ DrvIdle
SpecInit == InitDrv /\ [][NextInit]_vars

\* loop() against the clock, on the torus
SpecLoop == InitDrv /\ [][NextLoop]_vars

\* lcdDrawCircle on a cleared framebuffer; its loop goes on once entered
SpecCircle == InitDrv /\ [][NextCircle]_vars /\ WF_vars(CircleStep)

\* lcdFillRect on a cleared framebuffer; its loops go on once entered
SpecRect == InitDrv /\ [][NextRect]_vars /\ WF_vars(RectStep)

\* lcdFillTriangle on a cleared framebuffer
SpecTri == InitDrv /\ [][NextTri]_vars

\* the loop of lcdDrawLine runs on once entered
SpecLine == InitDrv /\ [][NextLine]_vars /\ WF_vars(LineStep)

(***************************************************************************)
(* Properties of the game (checked under Spec)                             *)
(***************************************************************************)
Running   == started /\ ~gameOver /\ ~paused
GameState == IF gameOver THEN "GameOver" ELSE IF paused THEN "Paused" ELSE "Running"

\* the step being taken: a poll (handleInput) or a tick (stepGame)
PollStep == started /\ pc = "input"
TickStep == started /\ pc = "tick"
\* the poll being taken returns KEY_OK and the poll before it did not
FreshOk  == okLast' /\ ~okLast

\* the cell the head moves to on the next tick, by modular arithmetic
TargetCell ==
  Point((snake[1].x + nextDirX) % GRID_COLS, (snake[1].y + nextDirY) % GRID_ROWS)
TargetInBody == \E i \in 1..snakeLen : snake[i] = TargetCell

\* C1: a Running tick whose wrapped new head cell equals one of the snakeLen body
\* cells (the tail cell included) ends the game, flushes one frame carrying the
\* GAME OVER banner and leaves the snake cells, snakeLen, food, score and tickMs
\* as they were.
C1_CollisionEndsGame ==
  [][ (TickStep /\ ~gameOver /\ ~paused /\ TargetInBody)
        => /\ gameOver'
           /\ Len(frames') = 1
           /\ frames'[1].kind = "game"
           /\ frames'[1].banner = "GAME OVER"
           /\ snake' = snake /\ snakeLen' = snakeLen /\ food' = food
           /\ score' = score /\ tickMs' = tickMs ]_vars

\* a game that has just ended on the tail cell: the head would have moved onto
\* snake[snakeLen-1], and the frame of that tick carries the banner
C1_Witness ==
  /\ gameOver /\ pc = "input"
  /\ Len(frames) = 1 /\ frames[1].banner = "GAME OVER"
  /\ TargetCell = snake[snakeLen]
  /\ \A i \in 1..(snakeLen - 1) : snake[i] # TargetCell

\* C2 (as stated): while Running the snakeLen cells are pairwise distinct.
C2_AllCellsDistinct ==
  Running => \A i, j \in 1..snakeLen : i < j => snake[i] # snake[j]

\* C2 (amended): while Running the cells are pairwise distinct except that the
\* last cell may equal the cell before it (the tail duplicated by a growth tick).
C2_DistinctUpToTail ==
  Running =>
    /\ \A i, j \in 1..(snakeLen - 1) : i < j => snake[i] # snake[j]
    /\ \A i \in 1..(snakeLen - 2) : snake[i] # snake[snakeLen]

\* a Running snake that has grown twice and turned
C2_Witness ==
  /\ Running /\ snakeLen >= 5
  /\ snake[snakeLen] = snake[snakeLen - 1]
  /\ dirY # 0

\* C3: while Running the food cell differs from every snake cell.
C3_FoodOffSnake ==
  Running => \A i \in 1..snakeLen : snake[i] # food

\* C4: a request opposite to the active direction leaves the pending direction
\* as it is, the pending direction is never the opposite of the active one, and a
\* tick never commits the reverse of the direction that was active before it.
Opposite(k, dx, dy) ==
  \/ k = KEY_UP    /\ dy = 1
  \/ k = KEY_DOWN  /\ dy = -1
  \/ k = KEY_LEFT  /\ dx = 1
  \/ k = KEY_RIGHT /\ dx = -1
C4_NoReversal ==
  /\ [] ( started =>
            /\ ~(nextDirX = -dirX /\ nextDirY = -dirY)
            /\ \A k \in Key : Opposite(k, dirX, dirY) =>
                 AcceptDir(k, dirX, dirY, nextDirX, nextDirY) = <<nextDirX, nextDirY>> )
  /\ [][ TickStep => ~(dirX' = -dirX /\ dirY' = -dirY) ]_vars

\* a Running game moving vertically with a horizontal turn pending
C4_Witness == Running /\ dirY # 0 /\ nextDirX # 0 /\ snakeLen >= 4

\* C5: the pause flag changes only on a poll that returns KEY_OK after a poll that
\* did not, and does change on every such poll outside GameOver; a finished game
\* restarts on exactly those polls, and the restarted game is not paused.
C5_OkFiresOnce ==
  [][ PollStep =>
        /\ (paused' # paused) => (FreshOk /\ ~gameOver)
        /\ (FreshOk /\ ~gameOver) => (paused' = ~paused /\ ~gameOver')
        /\ (gameOver /\ ~gameOver') => (FreshOk /\ ~paused')
        /\ (gameOver /\ FreshOk) => ~gameOver' ]_vars

\* a finished game polled with OK still held from before: no restart
C5_Witness == gameOver /\ okLast /\ frames = <<>> /\ pc = "tick"

\* C6: the game state changes only Running <-> Paused and GameOver -> Running on
\* a fresh OK press in handleInput, and Running -> GameOver on a self-collision
\* in stepGame; paused and gameOver are never both true.
C6_Transitions ==
  /\ [] ~(paused /\ gameOver)
  /\ [][ (started /\ GameState' # GameState) =>
           \/ /\ GameState = "Running" /\ GameState' = "Paused"
              /\ PollStep /\ FreshOk
           \/ /\ GameState = "Paused" /\ GameState' = "Running"
              /\ PollStep /\ FreshOk
           \/ /\ GameState = "GameOver" /\ GameState' = "Running"
              /\ PollStep /\ FreshOk
           \/ /\ GameState = "Running" /\ GameState' = "GameOver"
              /\ TickStep /\ TargetInBody ]_vars

\* a paused game that has grown, so ticks have passed before the pause
C6_Witness == paused /\ ~gameOver /\ score >= 1 /\ pc = "input"

\* a tick on which the head moves onto the food cell
Eats == TickStep /\ ~gameOver /\ ~paused /\ ~TargetInBody /\ TargetCell = food
\* a poll that restarts a finished game
Restarts == PollStep /\ gameOver /\ ~gameOver'

\* C7 (as stated): a tick that eats adds 1 to score and takes 5 off tickMs when
\* it is above 80; every other tick and every poll leaves both unchanged; and
\* 80 <= tickMs <= 180 always.
C7_ScoreAndSpeed ==
  /\ [] (TICK_FLOOR <= tickMs /\ tickMs <= TICK_START)
  /\ [][ IF Eats
           THEN /\ score' = score + 1
                /\ tickMs' = (IF tickMs > TICK_FLOOR THEN tickMs - TICK_STEP ELSE tickMs)
           ELSE score' = score /\ tickMs' = tickMs ]_vars

\* C7 (amended): as stated, except that a poll that restarts a finished game sets
\* score to 0 and tickMs to 180.
C7_ScoreAndSpeedButRestart ==
  /\ [] (TICK_FLOOR <= tickMs /\ tickMs <= TICK_START)
  /\ [][ IF Eats
           THEN /\ score' = score + 1
                /\ tickMs' = (IF tickMs > TICK_FLOOR THEN tickMs - TICK_STEP ELSE tickMs)
           ELSE IF Restarts
                  THEN score' = 0 /\ tickMs' = TICK_START
                  ELSE score' = score /\ tickMs' = tickMs ]_vars

\* the snake has eaten at the floor: 20 foods took tickMs from 180 to 80, the
\* 21st left it there
C7_Witness == tickMs = TICK_FLOOR /\ score = 21 /\ ~gameOver

(***************************************************************************)
(* Properties of the debouncer (checked under SpecKey)                     *)
(***************************************************************************)
\* C8: the stable key changes only to a raw key that has been held for at least
\* KEYPAD_DEBOUNCE_MS when the poll is made.
C8_ShortHoldNeverStable ==
  [][ (lastStableKey' # lastStableKey)
        => (lastStableKey' = rawKey /\ now - rawSince >= KEYPAD_DEBOUNCE_MS) ]_vars

\* C9: once a hold of a key K that differed from the stable key when the hold
\* began has been polled KEYPAD_DEBOUNCE_MS or more after it began, the stable
\* key is K, and during one hold the stable key changes at most once, to K,
\* and exactly once when the hold was polled that late.
C9_LongHoldStableOnce ==
  /\ changes <= 1
  /\ (changes = 1) => (lastStableKey = rawKey /\ stableAtHold # rawKey)
  /\ polledLate => lastStableKey = rawKey
  /\ (polledLate /\ stableAtHold # rawKey) => changes = 1

\* a key held and polled at exactly the window after the hold began, the
\* stable key having been refreshed at the moment the hold began
C9_Witness ==
  /\ polledLate /\ changes = 1 /\ rawKey = KEY_UP /\ lastStableKey = KEY_UP
  /\ stableAtHold = KEY_DOWN
  /\ lastDebounceTime = rawSince + KEYPAD_DEBOUNCE_MS
  /\ now > lastDebounceTime

(***************************************************************************)
(* Properties of the bus transfers (checked under SpecBus)                 *)
(***************************************************************************)
\* the bits of a byte sequence, most significant bit of each byte first
MsbFirst(bs) ==
  [n \in 1..(8 * Len(bs)) |->
     (bs[((n - 1) \div 8) + 1] \div (2 ^ (7 - ((n - 1) % 8)))) % 2]

BusDone == bpc = "idle" /\ busOp.kind # "idle"

\* C10: a transfer drives chip-select low, then D/C (0 for a command, 1 for
\* data), then 8 clock pulses per byte with the data line changing only while
\* the clock is low and carrying the bits most significant first at the rising
\* edges, then chip-select high with the clock high; a buffer goes out in one
\* chip-select-low burst.
C10_Framing ==
  /\ [] ( BusDone =>
            /\ cs = 1 /\ sck = 1
            /\ falls = 8 * Len(busOp.bytes)
            /\ sampled = MsbFirst(busOp.bytes)
            /\ dcAtEdge = [n \in 1..(8 * Len(busOp.bytes)) |->
                             IF busOp.kind = "cmd" THEN 0 ELSE 1]
            /\ dc = (IF busOp.kind = "cmd" THEN 0 ELSE 1) )
  /\ [] ( (cs = 1) => (sck = 1 /\ bpc = "idle") )
  /\ [][ (mosi' # mosi) => (sck = 0 /\ sck' = 0) ]_vars
  /\ [][ (sck' # sck) => (cs = 0 /\ cs' = 0) ]_vars
  /\ [][ (dc' # dc) => (cs = 0 /\ cs' = 0 /\ falls = 0 /\ sck = 1) ]_vars
  /\ [][ (cs = 0 /\ cs' = 1) => (sck = 1 /\ Len(sampled) = 8 * Len(busOp.bytes)) ]_vars
  /\ [][ (cs = 1 /\ cs' = 0) => (sck' = 1 /\ falls' = 0) ]_vars

\* a two-byte buffer has gone out in one burst, its first byte 0xB0
C10_Witness ==
  /\ BusDone /\ busOp.kind = "buf" /\ Len(busOp.bytes) = 2
  /\ busOp.bytes[1] = 176 /\ busOp.bytes[2] = 1
  /\ Len(sampled) = 16

(***************************************************************************)
(* Properties of the framebuffer calls (checked under SpecFb)              *)
(***************************************************************************)
\* the step being taken is a call of fn made on a ready driver
Calls(fn) == fpc = "ready" /\ fpc' # "ready" /\ call'.fn = fn

\* C16: lcdSetPixel(x, y, on) with x < 132 and y < 48 leaves every bit of every
\* cell as it was except bit (y mod 8) of lcdBuffer[y div 8][x]; with x >= 132 or
\* y >= 48 it leaves the framebuffer as it was; lcdGetPixel with such coordinates
\* returns false and changes nothing.
C16_SetPixelFrame ==
  /\ [][ Calls("lcdSetPixel") =>
          LET x == call'.args[1]
              y == call'.args[2]
          IN  IF x < 132 /\ y < 48
                THEN \A p \in 0..5, c \in 0..131, b \in 0..7 :
                       (p # y \div 8 \/ c # x \/ b # y % 8)
                         => BitOf(Cell(lcdBuffer', p, c), b) = BitOf(Cell(lcdBuffer, p, c), b)
                ELSE lcdBuffer' = lcdBuffer ]_vars
  /\ [][ (call'.fn = "lcdGetPixel" /\ fpc' = "read" /\ fpc # "read"
           /\ (call'.args[1] >= 132 \/ call'.args[2] >= 48))
          => (ret' = FALSE /\ lcdBuffer' = lcdBuffer /\ oob' = oob) ]_vars

\* a pixel cleared in the middle of a filled framebuffer: one bit of one cell is 0
C16_Witness ==
  /\ fpc = "done" /\ call = [fn |-> "lcdSetPixel", args |-> <<77, 29, FALSE>>]
  /\ Cell(lcdBuffer, 3, 77) = 255 - 32
  /\ Cell(lcdBuffer, 3, 76) = 255 /\ Cell(lcdBuffer, 2, 77) = 255

\* C17: lcdSetPixel(x, y, on) followed by lcdGetPixel(x, y) returns on for every
\* in-range pixel; after lcdClearBuffer lcdGetPixel returns false for every
\* pixel; lcdFillBuffer(p) sets every one of the 6 x 132 cells to p.
C17_SetGetRoundTrip ==
  /\ [][ (fpc = "done" /\ call.fn = "lcdSetPixel" /\ call'.fn = "lcdGetPixel"
           /\ call'.args[1] = call.args[1] /\ call'.args[2] = call.args[2]
           /\ call.args[1] < 132 /\ call.args[2] < 48)
          => ret' = call.args[3] ]_vars
  /\ [][ (fpc = "done" /\ call.fn = "lcdClearBuffer" /\ call'.fn = "lcdGetPixel")
          => ret' = FALSE ]_vars
  /\ [][ Calls("lcdFillBuffer")
          => \A p \in 0..5, c \in 0..131 : Cell(lcdBuffer', p, c) = call'.args[1] ]_vars

\* a pixel cleared in a filled framebuffer and read back as false
C17_Witness ==
  /\ fpc = "read" /\ call = [fn |-> "lcdGetPixel", args |-> <<131, 47>>]
  /\ ret = FALSE
  /\ Cell(lcdBuffer, 5, 131) = 127 /\ Cell(lcdBuffer, 5, 130) = 255

\* C18: lcdDrawChar(page, col, c, font, spacing) with page < 6 leaves the
\* framebuffer as it was when col + glyph width > 132; otherwise the cells
\* [col .. col+w-1] of the page hold the glyph columns, the cells after them up
\* to spacing of them and below column 132 hold 0, and every other cell is as it
\* was.  lcdDrawText draws character k at column col + k*(w+1) as long as the
\* glyph fits below column 132 and nothing from the first character that does
\* not; no other page and no column before col is touched.
C18_TextFrame ==
  /\ [][ (Calls("lcdDrawChar") /\ call'.args[1] < 6) =>
          LET page == call'.args[1]
              col  == call'.args[2]
              g    == getGlyph(call'.args[3], call'.args[4])
              w    == IF call'.args[4] = FONT_3X5 THEN 3 ELSE 5
              sp   == call'.args[5]
          IN  /\ oob' = oob
              /\ IF col + w > 132
                   THEN lcdBuffer' = lcdBuffer
                   ELSE \A p \in 0..5, c \in 0..131 :
                          Cell(lcdBuffer', p, c) =
                            IF p = page /\ c >= col /\ c < col + w THEN g[c - col + 1]
                            ELSE IF p = page /\ c >= col + w /\ c < col + w + sp THEN 0
                            ELSE Cell(lcdBuffer, p, c) ]_vars
  /\ [][ (Calls("lcdDrawText") /\ call'.args[1] < 6) =>
          LET page == call'.args[1]
              col  == call'.args[2]
              text == call'.args[3]
              font == call'.args[4]
              w    == IF font = FONT_3X5 THEN 3 ELSE 5
          IN  /\ oob' = oob
              /\ \A p \in 0..5, c \in 0..131 :
                   LET k == (c - col) \div (w + 1)
                       i == (c - col) % (w + 1)
                   IN  Cell(lcdBuffer', p, c) =
                         IF p = page /\ c >= col /\ k < Len(text)
                            /\ col + k * (w + 1) + w <= 132
                           THEN IF i < w THEN getGlyph(text[k + 1], font)[i + 1] ELSE 0
                           ELSE Cell(lcdBuffer, p, c) ]_vars

\* a long string drawn from column 100 on the last page: the fifth character
\* ends at column 128, its spacing column 129 is 0, and columns 130 and 131
\* keep what they held
C18_Witness ==
  /\ fpc = "done" /\ call.fn = "lcdDrawText"
  /\ call.args[1] = 5 /\ call.args[2] = 100 /\ Len(call.args[3]) = 40
  /\ call.args[4] = FONT_5X7
  /\ Cell(lcdBuffer, 5, 128) = getGlyph(call.args[3][5], FONT_5X7)[5]
  /\ Cell(lcdBuffer, 5, 129) = 0
  /\ Cell(lcdBuffer, 5, 130) = 255 /\ Cell(lcdBuffer, 5, 131) = 255
  /\ Cell(lcdBuffer, 5, 99) = 255 /\ Cell(lcdBuffer, 4, 100) = 255

\* C19: for every page value 0..255 and every column, lcdDrawChar, lcdDrawText
\* and lcdDrawNumber store only to cells inside the 6 x 132 framebuffer, and with
\* page >= 6 they store nothing at all.
C19_TextInBounds ==
  [][ (fpc = "ready" /\ call'.fn \in {"lcdDrawChar", "lcdDrawText", "lcdDrawNumber"})
      => /\ oob' = {}
         /\ (call'.args[1] >= 6 => lcdBuffer' = lcdBuffer) ]_vars

(***************************************************************************)
(* Properties of lcdDrawLine (checked under SpecLine)                      *)
(***************************************************************************)
\* the pixels that are set in the framebuffer, as <<x, y>>
Lit ==
  { <<kb[1][2], 8 * kb[1][1] + kb[2]>> :
      kb \in { e \in (DOMAIN lcdBuffer) \X (0..7) : BitOf(lcdBuffer[e[1]], e[2]) = 1 } }

\* C20: lcdDrawLine returns for every pair of end points (its loop reaches the
\* break, so no iteration leaves x0, y0 and err all as they were), and when both
\* end points are on the screen it sets exactly max(|x1-x0|, |y1-y0|) + 1
\* pixels, one for each coordinate along the major axis, both end points among
\* them and none outside the box the end points span.
C20_LineDrawn ==
  /\ [] ( (fpc = "done" /\ call.fn = "lcdDrawLine"
            /\ call.args[1] \in 0..131 /\ call.args[3] \in 0..131
            /\ call.args[2] \in 0..47 /\ call.args[4] \in 0..47) =>
           LET x0 == call.args[1]
               y0 == call.args[2]
               x1 == call.args[3]
               y1 == call.args[4]
               lx == IF x0 < x1 THEN x0 ELSE x1
               hx == IF x0 < x1 THEN x1 ELSE x0
               ly == IF y0 < y1 THEN y0 ELSE y1
               hy == IF y0 < y1 THEN y1 ELSE y0
           IN  /\ Cardinality(Lit) = (IF hx - lx > hy - ly THEN hx - lx ELSE hy - ly) + 1
               /\ <<x0, y0>> \in Lit /\ <<x1, y1>> \in Lit
               /\ \A q \in Lit : q[1] \in lx..hx /\ q[2] \in ly..hy
               /\ IF hx - lx >= hy - ly
                    THEN \A x \in lx..hx : \E y \in ly..hy : <<x, y>> \in Lit
                    ELSE \A y \in ly..hy : \E x \in lx..hx : <<x, y>> \in Lit )
  /\ [] (fpc = "loop" => ENABLED <<LineStep>>_vars)
  /\ (fpc = "loop") ~> (fpc = "done")

(***************************************************************************)
(* Properties of lcdInit (checked under SpecInit)                          *)
(***************************************************************************)
\* C12: what lcdInit puts out begins with the reset pin low, then high, then
\* the bytes of INIT_SEQUENCE as commands, each once and in table order (0x2C,
\* 0x2E, 0x2F being the 6th, 7th and 8th); the byte after each of these three
\* goes out 100 ms or more later; no data byte goes out before the last byte of
\* the table, and lcdInit does not return before it.
C12_InitOrder ==
  /\ [] ( \A n \in 1..Len(sent) :
             /\ (n = 1) => sent[n] = [kind |-> "rst", bytes |-> <<0>>]
             /\ (n = 2) => sent[n] = [kind |-> "rst", bytes |-> <<1>>]
             /\ (n \in 3..32) => sent[n] = [kind |-> "cmd", bytes |-> <<INIT_SEQUENCE[n - 2]>>]
             /\ (n > 32) => sent[n].kind \in {"cmd", "data"} )
  /\ [] ( Len(sent) >= 10 =>
             (sent[8].bytes = <<44>> /\ sent[9].bytes = <<46>> /\ sent[10].bytes = <<47>>) )
  /\ [] ( fpc = "done" => Len(sent) > 32 )
  /\ [][ (Len(sent') > Len(sent) /\ Len(sent) \in {8, 9, 10}) => elapsed >= 100 ]_vars

\* the table has gone out, the first page is addressed and its first
\* clearing byte is out
C12_Witness ==
  /\ fpc = "data" /\ call.fn = "lcdInit"
  /\ Len(sent) = 36
  /\ sent[32] = [kind |-> "cmd", bytes |-> <<0>>]
  /\ sent[33] = [kind |-> "cmd", bytes |-> <<176>>]
  /\ sent[36] = [kind |-> "data", bytes |-> <<0>>]

(***************************************************************************)
(* Properties of lcdFlush (checked under SpecFlush)                        *)
(***************************************************************************)
\* a display controller fed one transfer: 0xB0|p selects the page, 0x10|h and
\* 0x00|l set the high and low nibble of the column, every data byte is stored
\* at the selected page and column and the column moves on by one
Feed(st, e) ==
  IF e.kind = "cmd"
    THEN LET b == e.bytes[1] IN
         IF b \div 16 = 11 THEN [st EXCEPT !.page = b % 16]
         ELSE IF b \div 16 = 1 THEN [st EXCEPT !.col = (b % 16) * 16 + (st.col % 16)]
         ELSE IF b \div 16 = 0 THEN [st EXCEPT !.col = (st.col \div 16) * 16 + b]
         ELSE st
    ELSE IF e.kind \in {"data", "buf"}
      THEN [st EXCEPT !.col = st.col + Len(e.bytes),
                      !.ram = [k \in {<<st.page, st.col + j - 1>> : j \in 1..Len(e.bytes)}
                                 |-> e.bytes[k[2] - st.col + 1]] @@ @]
      ELSE st

RECURSIVE Controller(_, _, _)
Controller(log, n, st) ==
  IF n > Len(log) THEN st ELSE Controller(log, n + 1, Feed(st, log[n]))

\* the controller's display RAM after the transfers of the log, nothing
\* being known of its contents before
ControllerRam(log) == Controller(log, 1, [page |-> 0, col |-> 0, ram |-> <<>>]).ram

\* C11: lcdFlush sends, for page 0 to 5 in this order, the commands 0xB0|p,
\* 0x10, 0x00 and then the 132 bytes of the framebuffer's row p in one data
\* burst; when it returns, the RAM of a controller with auto-incrementing
\* column holds the framebuffer in all 6 x 132 cells; the framebuffer is not
\* changed.
C11_Flush ==
  /\ [] ( \A n \in 1..Len(sent) :
             LET p == (n - 1) \div 4
                 k == (n - 1) % 4
             IN  /\ p < 6
                 /\ (k = 0) => sent[n] = [kind |-> "cmd", bytes |-> <<176 + p>>]
                 /\ (k = 1) => sent[n] = [kind |-> "cmd", bytes |-> <<16>>]
                 /\ (k = 2) => sent[n] = [kind |-> "cmd", bytes |-> <<0>>]
                 /\ (k = 3) =>
                      /\ sent[n].kind = "buf"
                      /\ Len(sent[n].bytes) <= 132
                      /\ (n < Len(sent)) => Len(sent[n].bytes) = 132
                      /\ \A j \in 1..Len(sent[n].bytes) :
                            sent[n].bytes[j] = Cell(lcdBuffer, p, j - 1) )
  /\ [] ( fpc = "done" =>
             /\ Len(sent) = 24 /\ Len(sent[24].bytes) = 132
             /\ LET ram == ControllerRam(sent)
                IN  \A p \in 0..5, c \in 0..131 :
                      /\ <<p, c>> \in DOMAIN ram
                      /\ ram[<<p, c>>] = Cell(lcdBuffer, p, c) )
  /\ [][ lcdBuffer' = lcdBuffer ]_vars

\* lcdFlush has returned from a framebuffer whose rows differ
C11_Witness ==
  /\ fpc = "done" /\ call.fn = "lcdFlush"
  /\ Len(sent) = 24
  /\ sent[4].bytes[1] = 1 /\ sent[24].bytes[132] = 103
  /\ Cell(lcdBuffer, 5, 131) = 103

C14_FoodPlaced ==
  /\ [] ( Cardinality({ snake[i] : i \in 1..snakeLen }) <= grid.cols * grid.rows - 1 )
  /\ [] ( fpc = "draw" => loc.attempts \in 0..99 )
  /\ [] ( (call.fn = "placeFood" /\ fpc = "done") =>
             /\ food.x \in 0..(grid.cols - 1) /\ food.y \in 0..(grid.rows - 1)
             /\ \A i \in 1..snakeLen : snake[i] # food )
  /\ [][ (fpc = "scan" /\ fpc' = "done") =>
            \A x \in 0..(grid.cols - 1), y \in 0..(grid.rows - 1) :
              (\A i \in 1..snakeLen : snake[i] # [x |-> x, y |-> y])
                => (food'.y < y \/ (food'.y = y /\ food'.x <= x)) ]_vars
  /\ (call.fn = "placeFood") ~> (fpc = "done")

\* every draw has hit the snake and the scan has gone to the last cell of
\* the grid, the only free one
C14_Witness ==
  /\ call.fn = "placeFood" /\ fpc = "done"
  /\ DOMAIN loc = {"x", "y"}
  /\ snakeLen = 5
  /\ food = [x |-> 2, y |-> 1]

(***************************************************************************)
(* Properties of the head's move (checked under Spec)                      *)
(***************************************************************************)
\* C15: on a tick of a game that is neither over nor paused the candidate head
\* is ((head.x + dirX) mod GRID_COLS, (head.y + dirY) mod GRID_ROWS), dirX and
\* dirY being the direction the tick has just taken up: the head moves there
\* unless a snake cell lies there, and only then does the game end; so the head
\* leaving by one edge enters by the opposite one, and every snake cell is
\* always inside the grid.
C15_HeadWraps ==
  /\ [] ( \A i \in 1..snakeLen :
             snake[i].x \in 0..(grid.cols - 1) /\ snake[i].y \in 0..(grid.rows - 1) )
  /\ [][ (started /\ pc = "tick" /\ ~gameOver /\ ~paused) =>
            LET cand == [x |-> (snake[1].x + dirX') % grid.cols,
                         y |-> (snake[1].y + dirY') % grid.rows]
            IN  /\ dirX' = nextDirX /\ dirY' = nextDirY
                /\ gameOver' => (\E i \in 1..snakeLen : snake[i] = cand)
                /\ ~gameOver' => snake'[1] = cand
                /\ (snake[1].x = grid.cols - 1 /\ dirX' = 1) => cand = [x |-> 0, y |-> snake[1].y]
                /\ (snake[1].x = 0 /\ dirX' = -1) => cand = [x |-> grid.cols - 1, y |-> snake[1].y]
                /\ (snake[1].y = grid.rows - 1 /\ dirY' = 1) => cand = [x |-> snake[1].x, y |-> 0]
                /\ (snake[1].y = 0 /\ dirY' = -1) => cand = [x |-> snake[1].x, y |-> grid.rows - 1] ]_vars

\* the head has just left by the right edge and come in at column 0 of the
\* same row, the game going on
C15_Witness ==
  /\ started /\ ~gameOver /\ pc = "input"
  /\ grid.cols = 3 /\ snakeLen >= 3
  /\ dirX = 1
  /\ snake[1].x = 0 /\ snake[2].x = grid.cols - 1 /\ snake[2].y = snake[1].y
  /\ frames # <<>>

(***************************************************************************)
(* Properties of lcdFillTriangle (checked under SpecTri)                   *)
(***************************************************************************)
\* the pixels of scanline y from lo to hi that are on the screen
Visible(lo, hi, y) ==
  IF y \in 0..47 THEN { <<x, y>> : x \in { c \in lo..hi : c \in 0..131 } } ELSE {}

Least(S)    == CHOOSE m \in S : \A n \in S : m <= n
Greatest(S) == CHOOSE m \in S : \A n \in S : m >= n

\* C21: lcdFillTriangle draws one span on every scanline from the smallest to
\* the largest vertex y, in ascending order, none skipped and none twice; the
\* pixels a span sets are the run from its left to its right end, as far as it
\* is on the screen; three vertices on one scanline give the single span from
\* the smallest to the largest vertex x.
C21_OneSpanPerScanline ==
  [][ LET ys == { call'.args[2], call'.args[4], call'.args[6] }
          xs == { call'.args[1], call'.args[3], call'.args[5] }
      IN  /\ (Calls("lcdFillTriangle") /\ Cardinality(ys) = 1) =>
                (fpc' = "done" /\ Lit' = Visible(Least(xs), Greatest(xs), Least(ys)))
          /\ (Calls("lcdFillTriangle") /\ Cardinality(ys) > 1) =>
                (fpc' \in {"upper", "lower"} /\ loc'.y = Least(ys) /\ Lit' = {})
          /\ (call.fn = "lcdFillTriangle" /\ fpc \in {"upper", "lower"}) =>
                /\ loc'.y = loc.y + 1
                /\ loc'.a <= loc'.b
                /\ Lit' = Lit \cup Visible(loc'.a, loc'.b, loc.y)
                /\ (fpc' = "done") <=> (loc.y = Greatest(ys)) ]_vars

\* twice the signed area of the triangle of the locals l
TriArea2(l) == (l.x1 - l.x0) * (l.y2 - l.y0) - (l.x2 - l.x0) * (l.y1 - l.y0)

\* C24: in a triangle whose vertices are not on one scanline the span of
\* scanline y has for its ends the x of the long edge at y and the x of the
\* short edge that covers y (top to middle above the split row, middle to
\* bottom from it on), each start.x + dx * (y - start.y) / dy; every pixel set
\* is inside the bounding box of the vertices, and the middle vertex is set.
C24_SpanEnds ==
  /\ [][ (call.fn = "lcdFillTriangle" /\ fpc \in {"upper", "lower"} /\ TriArea2(loc) # 0) =>
            LET long  == loc.x0 + CDiv((loc.x2 - loc.x0) * (loc.y - loc.y0), loc.y2 - loc.y0)
                short == IF fpc = "upper"
                           THEN loc.x0 + CDiv((loc.x1 - loc.x0) * (loc.y - loc.y0), loc.y1 - loc.y0)
                           ELSE loc.x1 + CDiv((loc.x2 - loc.x1) * (loc.y - loc.y1), loc.y2 - loc.y1)
            IN  {loc'.a, loc'.b} = {long, short} ]_vars
  /\ [] ( (call.fn = "lcdFillTriangle" /\ fpc = "done" /\ loc.y0 # loc.y2 /\ TriArea2(loc) # 0) =>
             /\ \A q \in Lit :
                   /\ q[1] >= Least({loc.x0, loc.x1, loc.x2})
                   /\ q[1] <= Greatest({loc.x0, loc.x1, loc.x2})
                   /\ q[2] >= loc.y0 /\ q[2] <= loc.y2
             /\ (loc.x1 \in 0..131 /\ loc.y1 \in 0..47) => <<loc.x1, loc.y1>> \in Lit )

(***************************************************************************)
(* Properties of lcdDrawCircle (checked under SpecCircle)                  *)
(***************************************************************************)
\* pixel (x, y) of the framebuffer is set
IsLit(x, y) ==
  x \in 0..131 /\ y \in 0..47 /\ BitOf(Cell(lcdBuffer, y \div 8, x), y % 8) = 1

\* C22: when the circle of centre (cx, cy) and radius r lies on the screen,
\* the pixels lcdDrawCircle has set on a cleared framebuffer are the same after
\* reflection in the vertical and in the horizontal line through the centre and
\* in the diagonals: (cx+a, cy+b) is set if and only if (cx-a, cy+b),
\* (cx+a, cy-b) and (cx+b, cy+a) are (each reflection being its own inverse,
\* it is enough that the image of every set pixel is set); the end points of
\* the axes are set; and the loop ends for every radius from 0 to 255.
C22_CircleSymmetric ==
  /\ [] ( (call.fn = "lcdDrawCircle" /\ fpc = "done") =>
             LET cx == call.args[1]
                 cy == call.args[2]
                 r  == call.args[3]
             IN  (cx - r >= 0 /\ cx + r <= 131 /\ cy - r >= 0 /\ cy + r <= 47) =>
                   /\ IsLit(cx + r, cy) /\ IsLit(cx, cy + r)
                   /\ \A q \in Lit :
                         LET a == q[1] - cx
                             b == q[2] - cy
                         IN  /\ a \in (0 - r)..r /\ b \in (0 - r)..r
                             /\ IsLit(cx - a, cy + b)
                             /\ IsLit(cx + a, cy - b)
                             /\ IsLit(cx + b, cy + a) )
  /\ [] ( call.fn = "lcdDrawCircle" => call.args[3] \in 0..255 )
  /\ (fpc = "circle") ~> (fpc = "done")

\* the circle of centre (20, 20) and radius 5 has been drawn
C22_Witness ==
  /\ call = [fn |-> "lcdDrawCircle", args |-> <<20, 20, 5>>] /\ fpc = "done"
  /\ IsLit(25, 20) /\ IsLit(20, 15) /\ IsLit(24, 22) /\ IsLit(17, 17)
  /\ ~IsLit(20, 20)

(***************************************************************************)
(* Properties of the pause (checked under Spec)                            *)
(***************************************************************************)
\* C23: the handler in which an OK edge takes a running game into the pause
\* flushes a frame that carries the PAUSE banner, so that the banner is on the
\* display while the game is paused and before anything else changes.
C23_PauseBanner ==
  [][ (started /\ ~gameOver /\ ~paused /\ paused') =>
        \E i \in 1..Len(frames') : frames'[i].banner = "PAUSE" ]_vars

(***************************************************************************)
(* Properties of the snake's length (checked under Spec)                   *)
(***************************************************************************)
\* C25: snakeLen never exceeds SNAKE_MAX and the snake holds no cell at an
\* index from SNAKE_MAX on; a tick on which the head lands on the food adds 1
\* to the score; when snakeLen is SNAKE_MAX the length and the cells beyond
\* the head stay as the move left them, otherwise the length grows by exactly
\* 1 and the new last cell equals the cell that was last before the growth
\* (the tail, once the body has moved).
C25_GrowthCapped ==
  /\ [] ( snakeLen <= grid.cols * grid.rows /\ Len(snake) = snakeLen )
  /\ [][ (started /\ pc = "tick" /\ ~gameOver /\ ~paused /\ ~gameOver'
            /\ snake'[1] = food) =>
            /\ score' = score + 1
            /\ \A i \in 2..snakeLen : snake'[i] = snake[i - 1]
            /\ IF snakeLen = grid.cols * grid.rows
                 THEN snakeLen' = snakeLen
                 ELSE snakeLen' = snakeLen + 1 /\ snake'[snakeLen'] = snake'[snakeLen] ]_vars
  /\ [][ snakeLen' > snakeLen => (snakeLen' = snakeLen + 1 \/ snakeLen = 0) ]_vars

\* the head has landed on the food with the snake at its full length: the
\* score has gone up and the length has not
C25_Witness ==
  /\ started /\ ~gameOver /\ frames # <<>>
  /\ snakeLen = grid.cols * grid.rows
  /\ score > snakeLen - 3

\* C28: once the first snakeReset has run, 3 <= snakeLen <= SNAKE_MAX and
\* snakeLen = min(3 + score, SNAKE_MAX); a restart brings the length back to 3
\* and the score to 0.
C28_LengthFromScore ==
  /\ [] ( started =>
             /\ snakeLen >= 3 /\ snakeLen <= grid.cols * grid.rows
             /\ snakeLen = IF 3 + score < grid.cols * grid.rows
                             THEN 3 + score ELSE grid.cols * grid.rows )
  /\ [][ (gameOver /\ ~gameOver') => (snakeLen' = 3 /\ score' = 0) ]_vars

\* two meals into a game
C28_Witness ==
  /\ started /\ ~gameOver /\ score = 2 /\ snakeLen = 5
  /\ frames # <<>>

\* C26: a poll that reads the stable key on the raw line sets lastDebounceTime
\* to the time of that poll; and when a poll changes the stable key, the last
\* poll that read the old stable key on the raw line, if there was one, lies
\* KEYPAD_DEBOUNCE_MS or more before it (a poll exactly one window earlier is
\* not counted as inside the window).
C26_RefreshedWhileStable ==
  /\ [][ (now' = now /\ rawKey' = rawKey /\ rawKey = lastStableKey)
          => lastDebounceTime' = now ]_keyVars
  /\ [][ (lastStableKey' # lastStableKey)
          => (seenAt = -1 \/ now - seenAt >= KEYPAD_DEBOUNCE_MS) ]_keyVars

\* KEY_DOWN was stable and read at the poll at which the hold of KEY_UP began,
\* and KEY_UP became stable at the poll one window later
C26_Witness ==
  /\ changes = 1 /\ rawKey = KEY_UP /\ lastStableKey = KEY_UP
  /\ stableAtHold = KEY_DOWN
  /\ seenAt = now /\ lastDebounceTime = now
  /\ now = rawSince + KEYPAD_DEBOUNCE_MS

(***************************************************************************)
(* Properties of the loop timing (checked under SpecLoop)                  *)
(***************************************************************************)
\* C27: stepGame is entered only from a turn of loop() whose reading of the
\* clock is at least tickMs (as handleInput left it) past lastTick, and that
\* turn sets lastTick to the reading; lastTick changes at no other time once
\* the loop has started, so two steps in a row are at least tickMs apart; the
\* turn that enters stepGame has polled the keys first, the step follows
\* before the clock is read again, and every reading of the clock comes with a
\* poll.
C27_TickGate ==
  /\ [][ (pc = "input" /\ pc' = "tick")
          => (now' - lastTick >= tickMs' /\ lastTick' = now') ]_vars
  /\ [][ (started /\ lastTick' # lastTick) => (pc = "input" /\ pc' = "tick") ]_vars
  /\ [][ (pc' = "tick") => (started /\ pc = "input" /\ okHeld' = okLast') ]_vars
  /\ [][ (pc = "tick") => (pc' = "input" /\ now' = now) ]_vars
  /\ [][ (now' # now) => okHeld' = okLast' ]_vars

\* the second step of a game whose first step ate the food: due 175 ms after
\* the first, taken at the first turn at or after that
C27_Witness ==
  /\ pc = "tick" /\ tickMs = 175 /\ score = 1
  /\ lastTick = now /\ now = 360

(***************************************************************************)
(* Properties of lcdFillRect (checked under SpecRect)                      *)
(***************************************************************************)
\* C29: lcdFillRect returns for every call; when it has returned, the pixels
\* set are exactly those of [x, x+w) x [y, y+h) that are on the screen; and a
\* call with w = 0 or h = 0 sets no pixel at any time.
C29_RectFilled ==
  /\ [] ( (call.fn = "lcdFillRect" /\ fpc = "done") =>
            Lit = { q \in (0..(LCD_WIDTH - 1)) \X (0..(LCD_HEIGHT - 1)) :
                      /\ q[1] >= call.args[1] /\ q[1] < call.args[1] + call.args[3]
                      /\ q[2] >= call.args[2] /\ q[2] < call.args[2] + call.args[4] } )
  /\ [] ( (call.fn = "lcdFillRect" /\ (call.args[3] = 0 \/ call.args[4] = 0)) => Lit = {} )
  /\ (fpc = "rect") ~> (fpc = "done")

====
